---- MODULE Spec2Model ----
(***************************************************************************)
(* Model of the horizontal-scaling operation handler                       *)
(* (controllers/apps/operations/horizontal_scaling.go) and of the object   *)
(* generation transformer                                                  *)
(* (internal/controller/rsm/transformer_object_generation.go).             *)
(*                                                                         *)
(* An instance name "<cluster>-<comp>-<tpl>-<ordinal>" is the pair         *)
(* <<tpl, ordinal>>; the default template is "".  A nil pointer is the     *)
(* record Nil, a set pointer is Some(v).                                   *)
(***************************************************************************)
EXTENDS Integers, Sequences, FiniteSets, TLC

\* ------------------------------------------------------------------ bounds
\* Largest ordinal an operation request may name.
MaxOrd == 3

\* ----------------------------------------------------------------- helpers
Nil == [set |-> FALSE, v |-> 0]
Some(x) == [set |-> TRUE, v |-> x]

Range(s) == {s[i] : i \in DOMAIN s}

\* All the orders a Go map or set iteration may deliver the members of S in.
UnsortedList(S) ==
  {q \in [1..Cardinality(S) -> S] : \A i, j \in 1..Cardinality(S) : q[i] = q[j] => i = j}

RECURSIVE SumReplicas(_)
SumReplicas(tpls) ==
  IF tpls = <<>> THEN 0 ELSE Head(tpls).replicas + SumReplicas(Tail(tpls))

RECURSIVE SelectNotIn(_, _)
\* the members of sequence s that are not in set S, in order
SelectNotIn(s, S) ==
  IF s = <<>> THEN <<>>
  ELSE IF Head(s) \in S THEN SelectNotIn(Tail(s), S)
       ELSE <<Head(s)>> \o SelectNotIn(Tail(s), S)

\* --------------------------------------------------- instance-name derivation
GetInstanceTemplateName(insName) == insName[1]

RECURSIVE GenerateInstanceNames(_, _, _, _)
\* the first `replicas` names of template tpl, from `ordinal` on, that are not offline
GenerateInstanceNames(tpl, replicas, ordinal, offline) ==
  IF replicas <= 0 THEN {}
  ELSE IF <<tpl, ordinal>> \in offline
       THEN GenerateInstanceNames(tpl, replicas, ordinal + 1, offline)
       ELSE {<<tpl, ordinal>>} \cup GenerateInstanceNames(tpl, replicas - 1, ordinal + 1, offline)

GenerateAllPodNamesToSet(compReplicas, instances, offlineInstances) ==
  UNION {UNION {GenerateInstanceNames(ins[i].name, ins[i].replicas, 0, off) : i \in DOMAIN ins}
         \cup (IF total < compReplicas
               THEN GenerateInstanceNames("", compReplicas - total, 0, off)
               ELSE {}) :
           ins \in {instances}, off \in {Range(offlineInstances)},
           total \in {SumReplicas(instances)}}

\* map template name -> number of the given instance names that belong to it
CountOfflineOrOnlineInstances(names) ==
  [t \in {GetInstanceTemplateName(names[i]) : i \in DOMAIN names} |->
     Cardinality({i \in DOMAIN names : GetInstanceTemplateName(names[i]) = t})]

\* ------------------------------------------------------ the scaling intent
NoScaleIn == [present |-> FALSE, onlineInstancesToOffline |-> <<>>,
              instances |-> <<>>, replicaChanges |-> Nil]
NoScaleOut == [present |-> FALSE, offlineInstancesToOnline |-> <<>>, newInstances |-> <<>>,
               instances |-> <<>>, replicaChanges |-> Nil]
ScaleIn(names, ins, rc) == [present |-> TRUE, onlineInstancesToOffline |-> names,
                            instances |-> ins, replicaChanges |-> rc]
ScaleOut(names, new, ins, rc) == [present |-> TRUE, offlineInstancesToOnline |-> names,
                                  newInstances |-> new, instances |-> ins, replicaChanges |-> rc]
HorizontalScaling(c, r, in, out) ==
  [componentName |-> c, replicas |-> r, scaleIn |-> in, scaleOut |-> out]
Tpl(n, r) == [name |-> n, replicas |-> r]
Delta(n, d) == [name |-> n, replicaChanges |-> d]
CompSpec(r, ins, off) == [replicas |-> r, instances |-> ins, offlineInstances |-> off]

\* ------------------------------------------------- the topology calculator
\* filterHorizontalScalingSpec: the names kept, as sets; the order UnsortedList
\* returns them in is chosen by the caller.
\* a filter that keeps every name of onlineInstancesToOffline
keepNamedOnline(compReplicas, compInstanceTpls, compOfflineInstances, hs) ==
  Range(hs.scaleIn.onlineInstancesToOffline)

filterOnline(compReplicas, compInstanceTpls, compOfflineInstances, hs) ==
  Range(hs.scaleIn.onlineInstancesToOffline)
    \cap GenerateAllPodNamesToSet(compReplicas, compInstanceTpls, compOfflineInstances)

filterOffline(compOfflineInstances, hs) ==
  Range(hs.scaleOut.offlineInstancesToOnline) \cap Range(compOfflineInstances)

filterHorizontalScalingSpec(compReplicas, compInstanceTpls, compOfflineInstances, hs) ==
  {[hs EXCEPT !.scaleIn.onlineInstancesToOffline = toOff,
              !.scaleOut.offlineInstancesToOnline = toOn] :
     toOff \in UnsortedList(filterOnline(compReplicas, compInstanceTpls, compOfflineInstances, hs)),
     toOn \in UnsortedList(filterOffline(compOfflineInstances, hs))}

\* a merge that keeps every base name, compared or not
appendAllInstances(baseInstanceNames, comparedInstanceNames, newOfflineInstances) ==
  newOfflineInstances \o baseInstanceNames

handleOfflineInstances(baseInstanceNames, comparedInstanceNames, newOfflineInstances) ==
  newOfflineInstances \o SelectNotIn(baseInstanceNames, Range(comparedInstanceNames))

getCompExpectedOfflineInstances(compOfflineInstances, hs) ==
  LET afterIn == IF hs.scaleIn.present /\ Len(hs.scaleIn.onlineInstancesToOffline) > 0
                 THEN handleOfflineInstances(hs.scaleIn.onlineInstancesToOffline,
                                             compOfflineInstances, compOfflineInstances)
                 ELSE compOfflineInstances
  IN IF hs.scaleOut.present /\ Len(hs.scaleOut.offlineInstancesToOnline) > 0
     THEN handleOfflineInstances(afterIn, hs.scaleOut.offlineInstancesToOnline, <<>>)
     ELSE afterIn

RECURSIVE SumDeltas(_)
SumDeltas(ins) ==
  IF ins = <<>> THEN 0 ELSE Head(ins).replicaChanges + SumDeltas(Tail(ins))

\* a synchronisation that always takes the synthesized total as the aggregate
syncedTotalOnly(countMap, instances, replicaChanges, newInstances, added) ==
  [instances |-> instances \o [i \in DOMAIN added |-> Delta(added[i], countMap[added[i]])],
   replicaChanges |->
     Some(SumDeltas(instances)
          + (IF "" \in DOMAIN countMap THEN countMap[""] ELSE 0)
          + SumDeltas([i \in DOMAIN added |-> Delta(added[i], countMap[added[i]])])
          + SumReplicas(newInstances))]

\* getSyncedInstancesAndReplicaChanges: the per-template deltas, with one entry
\* appended (in map order, `added`) for each counted template the list does not
\* name, and the aggregate.
getSyncedInstancesAndReplicaChanges(countMap, instances, replicaChanges, newInstances, added) ==
  LET synced == instances \o [i \in DOMAIN added |-> Delta(added[i], countMap[added[i]])]
      all == SumDeltas(instances)
             + (IF "" \in DOMAIN countMap THEN countMap[""] ELSE 0)
             + SumDeltas([i \in DOMAIN added |-> Delta(added[i], countMap[added[i]])])
             + SumReplicas(newInstances)
  IN [instances |-> synced,
      replicaChanges |-> IF replicaChanges.set THEN replicaChanges ELSE Some(all)]

\* an entry for every template that has named instances
syncAddedForAll(countMap, instances) == DOMAIN countMap \ {""}

\* the templates autoSyncReplicaChanges appends an entry for
syncAdded(countMap, instances) ==
  (DOMAIN countMap \ {""}) \ {instances[i].name : i \in DOMAIN instances}

autoSyncReplicaChanges(hs) ==
  LET inMap == CountOfflineOrOnlineInstances(hs.scaleIn.onlineInstancesToOffline)
      outMap == CountOfflineOrOnlineInstances(hs.scaleOut.offlineInstancesToOnline)
  IN {[hs EXCEPT
         !.scaleIn = IF hs.scaleIn.present
                     THEN LET s == getSyncedInstancesAndReplicaChanges(inMap,
                                     hs.scaleIn.instances, hs.scaleIn.replicaChanges, <<>>, addIn)
                          IN [@ EXCEPT !.instances = s.instances,
                                       !.replicaChanges = s.replicaChanges]
                     ELSE @,
         !.scaleOut = IF hs.scaleOut.present
                      THEN LET s == getSyncedInstancesAndReplicaChanges(outMap,
                                      hs.scaleOut.instances, hs.scaleOut.replicaChanges,
                                      hs.scaleOut.newInstances, addOut)
                           IN [@ EXCEPT !.instances = s.instances,
                                        !.replicaChanges = s.replicaChanges]
                      ELSE @] :
       addIn \in UnsortedList(syncAdded(inMap, hs.scaleIn.instances)),
       addOut \in UnsortedList(syncAdded(outMap, hs.scaleOut.instances))}

getCompExpectReplicas(hs, compReplicas) ==
  IF hs.replicas.set THEN hs.replicas.v
  ELSE compReplicas
       + (IF hs.scaleOut.present /\ hs.scaleOut.replicaChanges.set
          THEN hs.scaleOut.replicaChanges.v ELSE 0)
       - (IF hs.scaleIn.present /\ hs.scaleIn.replicaChanges.set
          THEN hs.scaleIn.replicaChanges.v ELSE 0)

\* a pass over the deltas that changes no template
keepInstanceTpls(tpls, n, instances, isScaleIn) == tpls

RECURSIVE handleInstanceTplReplicaChanges(_, _, _, _)
\* apply the deltas `instances` to the templates tpls; compInsTplSet maps a
\* template name to its index among the first n templates (the last of that name)
handleInstanceTplReplicaChanges(tpls, n, instances, isScaleIn) ==
  IF instances = <<>> THEN tpls
  ELSE LET v == Head(instances)
           idx == {i \in 1..n : tpls[i].name = v.name}
           compInsIndex == CHOOSE i \in idx : \A j \in idx : j <= i
           next == IF idx = {} THEN tpls
                   ELSE [tpls EXCEPT ![compInsIndex].replicas =
                           IF isScaleIn THEN @ - v.replicaChanges ELSE @ + v.replicaChanges]
       IN handleInstanceTplReplicaChanges(next, n, Tail(instances), isScaleIn)

getCompExpectedInstances(compInstanceTpls, hs) ==
  IF hs.replicas.set THEN compInstanceTpls
  ELSE LET n == Len(compInstanceTpls)
           afterOut == IF hs.scaleOut.present
                       THEN handleInstanceTplReplicaChanges(
                              compInstanceTpls \o hs.scaleOut.newInstances, n,
                              hs.scaleOut.instances, FALSE)
                       ELSE compInstanceTpls
       IN IF hs.scaleIn.present
          THEN handleInstanceTplReplicaChanges(afterOut, n, hs.scaleIn.instances, TRUE)
          ELSE afterOut

\* a calculator that always starts from the live component spec
expectedFromLiveSpec(compSpec, lastCompConfiguration, hs) ==
  UNION {UNION {
       {CompSpec(getCompExpectReplicas(synced, base.replicas),
                 getCompExpectedInstances(base.instances, synced),
                 getCompExpectedOfflineInstances(base.offlineInstances, filtered)) :
          synced \in autoSyncReplicaChanges(filtered)} :
       filtered \in filterHorizontalScalingSpec(base.replicas, base.instances,
                                                base.offlineInstances, hs)} :
     base \in {compSpec}}

\* getExpectedCompValues: every (replicas, instances, offlineInstances) the call
\* may return; the results differ only in the order of the offline instances.
getExpectedCompValues(compSpec, lastCompConfiguration, hs) ==
  UNION {UNION {
       {CompSpec(getCompExpectReplicas(synced, base.replicas),
                 getCompExpectedInstances(base.instances, synced),
                 getCompExpectedOfflineInstances(base.offlineInstances, filtered)) :
          synced \in autoSyncReplicaChanges(filtered)} :
       filtered \in filterHorizontalScalingSpec(base.replicas, base.instances,
                                                base.offlineInstances, hs)} :
     base \in {IF hs.replicas.set THEN compSpec ELSE lastCompConfiguration}}

\* ------------------------------------------------------------- validation
\* collectOnlineAndOfflineAndNotExistInstances: <<online, offline, notExist>>
collectOnlineAndOfflineAndNotExistInstances(instance, offlineInstances, currPodSet) ==
  LET names == Range(instance)
  IN <<{n \in names : n \notin offlineInstances /\ n \in currPodSet},
       {n \in names : n \in offlineInstances},
       {n \in names : n \notin offlineInstances /\ n \notin currPodSet}>>

\* collecteAllTypeOfInstancesFromOps:
\* <<onlinedInstanceFromScaleInOps, offlinedInstanceFromScaleOutOps, notExistInstanceFromOps>>
collecteAllTypeOfInstancesFromOps(hs, currPodSet, offlineInstances) ==
  LET useIn == hs.scaleIn.present /\ Len(hs.scaleIn.onlineInstancesToOffline) > 0
      useOut == hs.scaleOut.present /\ Len(hs.scaleOut.offlineInstancesToOnline) > 0
      fromIn == collectOnlineAndOfflineAndNotExistInstances(
                  hs.scaleIn.onlineInstancesToOffline, offlineInstances, currPodSet)
      fromOut == collectOnlineAndOfflineAndNotExistInstances(
                   hs.scaleOut.offlineInstancesToOnline, offlineInstances, currPodSet)
  IN <<IF useIn THEN fromIn[1] ELSE {},
       IF useOut THEN fromOut[2] ELSE {},
       (IF useIn THEN fromIn[3] ELSE {}) \cup (IF useOut THEN fromOut[3] ELSE {})>>

\* the members of the list that are not in the set (nil, here <<>>, when none)
getMissingElementsInSetFromList(set, list) == SelectNotIn(list, set)

\* a strict validation that looks at onlineInstancesToOffline alone
strictValidationOfScaleIn(hs, onlinedInstanceFromScaleInOps, offlinedInstanceFromScaleOutOps) ==
  IF /\ hs.scaleIn.present /\ Len(hs.scaleIn.onlineInstancesToOffline) > 0
     /\ Cardinality(onlinedInstanceFromScaleInOps) # Len(hs.scaleIn.onlineInstancesToOffline)
  THEN IF getMissingElementsInSetFromList(onlinedInstanceFromScaleInOps,
                                          hs.scaleIn.onlineInstancesToOffline) = <<>>
       THEN "duplicates" ELSE "notOnline"
  ELSE "none"

strictPolicyValidation(hs, onlinedInstanceFromScaleInOps, offlinedInstanceFromScaleOutOps) ==
  IF /\ hs.scaleIn.present /\ Len(hs.scaleIn.onlineInstancesToOffline) > 0
     /\ Cardinality(onlinedInstanceFromScaleInOps) # Len(hs.scaleIn.onlineInstancesToOffline)
  THEN IF getMissingElementsInSetFromList(onlinedInstanceFromScaleInOps,
                                          hs.scaleIn.onlineInstancesToOffline) = <<>>
       THEN "duplicates" ELSE "notOnline"
  ELSE IF /\ hs.scaleOut.present /\ Len(hs.scaleOut.offlineInstancesToOnline) > 0
          /\ Cardinality(offlinedInstanceFromScaleOutOps)
               # Len(hs.scaleOut.offlineInstancesToOnline)
       THEN IF getMissingElementsInSetFromList(offlinedInstanceFromScaleOutOps,
                                               hs.scaleOut.offlineInstancesToOnline) = <<>>
            THEN "duplicates" ELSE "notOffline"
       ELSE "none"

\* a validation that is strict whatever the annotation says
validateStrictly(policy, lastCompConfiguration, hs) ==
  LET currPodSet == GenerateAllPodNamesToSet(lastCompConfiguration.replicas,
                      lastCompConfiguration.instances, lastCompConfiguration.offlineInstances)
      offlineInstances == Range(lastCompConfiguration.offlineInstances)
      all == collecteAllTypeOfInstancesFromOps(hs, currPodSet, offlineInstances)
  IN IF all[3] # {} THEN "notExist"
     ELSE strictPolicyValidation(hs, all[1], all[2])

\* policy: the value of the validate-policy annotation, "" when it is absent
validateHorizontalScalingWithPolicy(policy, lastCompConfiguration, hs) ==
  LET currPodSet == GenerateAllPodNamesToSet(lastCompConfiguration.replicas,
                      lastCompConfiguration.instances, lastCompConfiguration.offlineInstances)
      offlineInstances == Range(lastCompConfiguration.offlineInstances)
      all == collecteAllTypeOfInstancesFromOps(hs, currPodSet, offlineInstances)
  IN IF all[3] # {} THEN "notExist"
     ELSE IF policy # "" /\ policy # "Strict" THEN "none"
     ELSE strictPolicyValidation(hs, all[1], all[2])

\* a guard that lets every topology through
NeverExceeded(replicas, instances) == FALSE

\* the replica-conservation guard of Action
ReplicasExceeded(replicas, instances) == SumReplicas(instances) > replicas

\* --------------------------------------------------- created and deleted pods
\* getCreateAndDeletePodSet returns <<first result, second result>>; phase is
\* the phase of the operation in opsRes.
\* The two sets with the swap made in every phase but Cancelling
swapUnlessCancelling(phase, lastPodSet, currPodSet, hs) ==
  LET createPodSet == (currPodSet \ lastPodSet)
                      \cup (IF hs.scaleOut.present
                            THEN Range(hs.scaleOut.offlineInstancesToOnline) ELSE {})
      deletePodSet == (lastPodSet \ currPodSet)
                      \cup (IF hs.scaleIn.present
                            THEN Range(hs.scaleIn.onlineInstancesToOffline) ELSE {})
  IN IF phase # "Cancelling" THEN <<deletePodSet, createPodSet>>
     ELSE <<createPodSet, deletePodSet>>

\* the two sets as computed, in the same places in every phase
neverSwapped(phase, lastPodSet, currPodSet, hs) ==
  <<(currPodSet \ lastPodSet)
      \cup (IF hs.scaleOut.present THEN Range(hs.scaleOut.offlineInstancesToOnline) ELSE {}),
    (lastPodSet \ currPodSet)
      \cup (IF hs.scaleIn.present THEN Range(hs.scaleIn.onlineInstancesToOffline) ELSE {})>>

\* the second half of getCreateAndDeletePodSet, from the two pod sets on
createAndDeletePodSet(phase, lastPodSet, currPodSet, hs) ==
  LET createPodSet == (currPodSet \ lastPodSet)
                      \cup (IF hs.scaleOut.present
                            THEN Range(hs.scaleOut.offlineInstancesToOnline) ELSE {})
      deletePodSet == (lastPodSet \ currPodSet)
                      \cup (IF hs.scaleIn.present
                            THEN Range(hs.scaleIn.onlineInstancesToOffline) ELSE {})
  IN IF phase = "Cancelling" THEN <<deletePodSet, createPodSet>>
     ELSE <<createPodSet, deletePodSet>>

\* the pod names a (replicas, instances, offlineInstances) triple implies
podNamesOf(spec) ==
  UNION {GenerateAllPodNamesToSet(s.replicas, s.instances, s.offlineInstances) : s \in {spec}}

getCreateAndDeletePodSet(phase, lastCompConfiguration, currCompSpec, hs) ==
  CHOOSE sets \in
    {createAndDeletePodSet(phase, lastPodSet, currPodSet, hs) :
       lastPodSet \in {podNamesOf(lastCompConfiguration)},
       currPodSet \in {podNamesOf(CHOOSE e \in getExpectedCompValues(currCompSpec,
                                                  lastCompConfiguration, hs) : TRUE)}} : TRUE

\* ------------------------------------------------------------------- state
VARIABLES
  cluster,       \* component name -> the persisted component spec
  clusterPhase,  \* the cluster's status phase
  ops,           \* operation id -> the operation record (ids in creation order)
  pods,          \* component name -> the instances observed to exist
  restores,      \* the Restore objects of the cluster: [name, comp, phase, backup,
                 \* deleting, finalizer], where comp is the component label, backup
                 \* the name of the backup restored from, deleting says that a delete
                 \* was issued and finalizer that the component finalizer is on it
  savedSpec,     \* history: operation id -> the component specs when it saved them
  unavailable,   \* component name -> the existing instances that are not available:
                 \* created and not ready yet, or terminating
  progressDetails \* operation id -> the [key, status] the last tick reported for
                 \* each tracked instance; a key is <<component, instance>>

opsVars == <<cluster, clusterPhase, ops, pods, restores, savedSpec, unavailable,
             progressDetails>>

\* the cluster's components, in the order of cluster.Spec.ComponentSpecs
CompOrder == <<"X", "Y">>
Comps == Range(CompOrder)
OpIds == {1, 2}

TerminalPhases == {"Succeed", "Failed", "Cancelled", "Aborted"}

\* newComponentOpsHelper: component name -> the entry of the list for it
componentOpsSet(list) ==
  [c \in {list[i].componentName : i \in DOMAIN list} |->
     list[CHOOSE i \in DOMAIN list :
            /\ list[i].componentName = c
            /\ \A j \in DOMAIN list : list[j].componentName = c => j <= i]]

\* ----------------------------------------------- conflicts with earlier ops
\* a check that finds no instance of the earlier operation in the way
neverIntersects(cl, phase, currOps, earlierOps, currOpsHScaling, earlierOpsHScaling) == "none"

\* checkIntersectionWithEarlierOps, called while opsRes.OpsRequest is in `phase`
checkIntersectionWithEarlierOps(cl, phase, currOps, earlierOps, currOpsHScaling, earlierOpsHScaling) ==
  LET comp == earlierOpsHScaling.componentName
      getCreatedOrDeletedPodSet(o, hScaling) ==
        getCreateAndDeletePodSet(phase, o.lastConfiguration[comp],
          CHOOSE e \in getExpectedCompValues(cl[comp], o.lastConfiguration[comp], hScaling) : TRUE,
          hScaling)
      createdPodSetForEarlier == getCreatedOrDeletedPodSet(earlierOps, earlierOpsHScaling)[1]
      deletedPodSetForCurrent == getCreatedOrDeletedPodSet(currOps, currOpsHScaling)[2]
  IN IF deletedPodSetForCurrent \cap createdPodSetForEarlier # {}
     THEN "createdByAnotherOps" ELSE "none"

RECURSIVE matchAbortCondition(_, _, _, _)
\* a callback that answers an intersection by aborting the earlier operation
abortOnIntersection(cl, currOps, earlierOps, i, err) ==
  IF err # "none" THEN [abort |-> TRUE, err |-> "none"]
  ELSE matchAbortCondition(cl, currOps, earlierOps, i + 1)

\* the end of the callback's loop body for entry i: err is what
\* checkIntersectionWithEarlierOps returned
afterIntersectionCheck(cl, currOps, earlierOps, i, err) ==
  IF err # "none" THEN [abort |-> FALSE, err |-> err]
  ELSE matchAbortCondition(cl, currOps, earlierOps, i + 1)

\* the callback Action hands to abortEarlierOpsRequestWithSameKind, from entry i
\* of the earlier operation's list on: [abort, err]
matchAbortCondition(cl, currOps, earlierOps, i) ==
  IF i > Len(earlierOps.list) THEN [abort |-> FALSE, err |-> "none"]
  ELSE LET v == earlierOps.list[i]
           set == componentOpsSet(currOps.list)
       IN IF v.componentName \notin DOMAIN set THEN [abort |-> FALSE, err |-> "none"]
          ELSE IF set[v.componentName].replicas.set \/ v.replicas.set
               THEN [abort |-> TRUE, err |-> "none"]
          ELSE IF earlierOps.phase = "Pending" THEN [abort |-> FALSE, err |-> "none"]
          ELSE afterIntersectionCheck(cl, currOps, earlierOps, i,
                 checkIntersectionWithEarlierOps(cl, currOps.phase, currOps,
                                                 earlierOps, set[v.componentName], v))

\* a scan that aborts every earlier operation, whatever its phase
abortWhateverPhase(cl, os, o, e) ==
  [ops |-> [x \in DOMAIN os |-> IF x < o THEN [os[x] EXCEPT !.phase = "Aborted"] ELSE os[x]],
   err |-> "none"]

RECURSIVE abortEarlierOpsRequestWithSameKind(_, _, _, _)
\* what the scan does with the callback's result m for the earlier operation e
abortMatched(cl, os, o, e, m) ==
  IF m.err # "none" THEN [ops |-> os, err |-> m.err]
  ELSE abortEarlierOpsRequestWithSameKind(cl,
         IF m.abort THEN [os EXCEPT ![e].phase = "Aborted"] ELSE os, o, e + 1)

\* scan the pending-or-running operations created before o, from e on:
\* [ops, err], the records with the aborted ones marked
abortEarlierOpsRequestWithSameKind(cl, os, o, e) ==
  IF e >= o THEN [ops |-> os, err |-> "none"]
  ELSE IF os[e].phase \in TerminalPhases \cup {"Cancelling"}
       THEN abortEarlierOpsRequestWithSameKind(cl, os, o, e + 1)
  ELSE abortMatched(cl, os, o, e, matchAbortCondition(cl, os[o], os[e], 1))

\* ------------------------------------------------------------------ Action
\* the callback of updateClusterComponentsAndShardings for one component:
\* the set of [err, spec] it may end with
updateComponent(op, compSpec, hs) ==
  LET lastCompConfiguration == op.lastConfiguration[hs.componentName]
      verr == validateHorizontalScalingWithPolicy(op.policy, lastCompConfiguration, hs)
  IN IF verr # "none" THEN {[err |-> verr, spec |-> compSpec]}
     ELSE {IF ReplicasExceeded(e.replicas, e.instances)
           THEN [err |-> "replicasExceeded", spec |-> compSpec]
           ELSE [err |-> "none", spec |-> e] :
             e \in getExpectedCompValues(compSpec, lastCompConfiguration, hs)}

RECURSIVE updateClusterComponentsAndShardings(_, _, _)
\* from component i of the cluster on: the set of [err, cluster]
updateClusterComponentsAndShardings(op, cl, i) ==
  IF i > Len(CompOrder) THEN {[err |-> "none", cluster |-> cl]}
  ELSE LET c == CompOrder[i]
           set == componentOpsSet(op.list)
       IN IF c \notin DOMAIN set THEN updateClusterComponentsAndShardings(op, cl, i + 1)
          ELSE UNION {IF r.err # "none" THEN {[err |-> r.err, cluster |-> cl]}
                      ELSE updateClusterComponentsAndShardings(op,
                             [cl EXCEPT ![c] = r.spec], i + 1) :
                        r \in updateComponent(op, cl[c], set[c])}

\* horizontalScalingOpsHandler.Action for operation o: a fatal error fails the
\* operation, which records it in err, and leaves the persisted cluster as it was
\* an Action that does not look at the phase of the cluster
actionWhateverClusterPhase(o) ==
  /\ ops[o].phase = "Creating"
  /\ \E ab \in {abortEarlierOpsRequestWithSameKind(cluster, ops, o, 1)} :
       IF ab.err # "none"
       THEN /\ ops' = [ab.ops EXCEPT ![o].phase = "Failed", ![o].err = ab.err]
            /\ UNCHANGED cluster
       ELSE \E r \in updateClusterComponentsAndShardings(ops[o], cluster, 1) :
              /\ ops' = [ab.ops EXCEPT ![o].phase =
                           IF r.err = "none" THEN "Running" ELSE "Failed",
                                        ![o].err = r.err]
              /\ cluster' = IF r.err = "none" THEN r.cluster ELSE cluster
  /\ UNCHANGED <<clusterPhase, pods, restores, savedSpec, unavailable, progressDetails>>

\* an Action that persists the cluster as far as it got
actionWithPartialWrite(o) ==
  /\ ops[o].phase = "Creating"
  /\ IF clusterPhase \in {"Stopped", "Stopping"}
     THEN /\ ops' = [ops EXCEPT ![o].phase = "Failed", ![o].err = "clusterPhase"]
          /\ UNCHANGED cluster
     ELSE \E ab \in {abortEarlierOpsRequestWithSameKind(cluster, ops, o, 1)} :
            IF ab.err # "none"
            THEN /\ ops' = [ab.ops EXCEPT ![o].phase = "Failed", ![o].err = ab.err]
                 /\ UNCHANGED cluster
            ELSE \E r \in updateClusterComponentsAndShardings(ops[o], cluster, 1) :
                   /\ ops' = [ab.ops EXCEPT ![o].phase =
                                IF r.err = "none" THEN "Running" ELSE "Failed",
                                             ![o].err = r.err]
                   /\ cluster' = r.cluster
  /\ UNCHANGED <<clusterPhase, pods, restores, savedSpec, unavailable, progressDetails>>

Action(o) ==
  /\ ops[o].phase = "Creating"
  /\ IF clusterPhase \in {"Stopped", "Stopping"}
     THEN /\ ops' = [ops EXCEPT ![o].phase = "Failed", ![o].err = "clusterPhase"]
          /\ UNCHANGED cluster
     ELSE \E ab \in {abortEarlierOpsRequestWithSameKind(cluster, ops, o, 1)} :
            IF ab.err # "none"
            THEN /\ ops' = [ab.ops EXCEPT ![o].phase = "Failed", ![o].err = ab.err]
                 /\ UNCHANGED cluster
            ELSE \E r \in updateClusterComponentsAndShardings(ops[o], cluster, 1) :
                   /\ ops' = [ab.ops EXCEPT ![o].phase =
                                IF r.err = "none" THEN "Running" ELSE "Failed",
                                             ![o].err = r.err]
                   /\ cluster' = IF r.err = "none" THEN r.cluster ELSE cluster
  /\ UNCHANGED <<clusterPhase, pods, restores, savedSpec, unavailable, progressDetails>>

\* ------------------------------------------------- SaveLastConfiguration
\* a pass that records the specs again while the operation is running
saveLastConfigurationAgain(o) ==
  /\ ops[o].phase \in {"Pending", "Running"}
  /\ LET touched == DOMAIN componentOpsSet(ops[o].list) \cap Comps
         lastConfiguration == [c \in touched |->
            CompSpec(cluster[c].replicas, cluster[c].instances, cluster[c].offlineInstances)]
     IN /\ ops' = [ops EXCEPT ![o].phase = IF @ = "Pending" THEN "Creating" ELSE @,
                              ![o].lastConfiguration = lastConfiguration]
        /\ savedSpec' = IF ops[o].phase = "Pending"
                        THEN [savedSpec EXCEPT ![o] = [c \in touched |-> cluster[c]]]
                        ELSE savedSpec
  /\ UNCHANGED <<cluster, clusterPhase, pods, restores, unavailable, progressDetails>>

\* the first pass over a Pending operation: record the specs of its components
\* and move it to Creating
SaveLastConfiguration(o) ==
  /\ ops[o].phase = "Pending"
  /\ LET touched == DOMAIN componentOpsSet(ops[o].list) \cap Comps
         lastConfiguration == [c \in touched |->
            CompSpec(cluster[c].replicas, cluster[c].instances, cluster[c].offlineInstances)]
     IN /\ ops' = [ops EXCEPT ![o].phase = "Creating",
                              ![o].lastConfiguration = lastConfiguration]
        /\ savedSpec' = [savedSpec EXCEPT ![o] = [c \in touched |-> cluster[c]]]
  /\ UNCHANGED <<cluster, clusterPhase, pods, restores, unavailable, progressDetails>>

\* ------------------------------------------------------------------ Cancel
\* a revert that restores the replica count alone
revertReplicasOnly(lastConfig, comp) == [comp EXCEPT !.replicas = lastConfig.replicas]

\* the revert Cancel applies to one component
revertComponent(lastConfig, comp) ==
  [comp EXCEPT !.replicas = lastConfig.replicas,
               !.instances = lastConfig.instances,
               !.offlineInstances = lastConfig.offlineInstances]

\* a cancellation that reverts every component of the cluster, the ones the
\* operation does not name with the record of one it names
cancelEveryComponent(op, cl) ==
  [c \in Comps |->
     IF DOMAIN op.lastConfiguration = {} THEN cl[c]
     ELSE revertComponent(
            op.lastConfiguration[IF c \in DOMAIN op.lastConfiguration THEN c
                                 ELSE CHOOSE d \in DOMAIN op.lastConfiguration : TRUE],
            cl[c])]

\* cancelComponentOps with Cancel's revert: the cluster after it
cancelComponentOps(op, cl) ==
  [c \in Comps |->
     IF c \in DOMAIN componentOpsSet(op.list) /\ c \in DOMAIN op.lastConfiguration
     THEN revertComponent(op.lastConfiguration[c], cl[c])
     ELSE cl[c]]

\* the cancellation signal: the user sets spec.cancel, whatever the phase of
\* the operation is
CancelSignal(o) ==
  /\ ~ops[o].cancel
  /\ ops' = [ops EXCEPT ![o].cancel = TRUE]
  /\ UNCHANGED <<cluster, clusterPhase, pods, restores, savedSpec, unavailable,
                 progressDetails>>

\* GenerateResourceNameWithScalingSuffix of the workload name of a component
scalingBackupName(compName) == <<compName, "scaling">>

\* every running Restore object of the cluster
runningRestores(op) == {r \in restores : r.phase = "Running"}

\* the Restore objects Cancel deletes: the running ones of a component of the
\* operation whose backup carries the scaling name of that component
restoresToDelete(op) ==
  {r \in restores : /\ r.phase = "Running"
                    /\ r.comp \in DOMAIN componentOpsSet(op.list)
                    /\ r.backup = scalingBackupName(r.comp)}

\* the Restore objects after Cancel: a delete is issued for each of these and
\* the component finalizer is removed from it
teardownRestores(op) ==
  (restores \ restoresToDelete(op))
  \cup {[r EXCEPT !.deleting = TRUE, !.finalizer = FALSE] : r \in restoresToDelete(op)}

\* a tick that handles the signal of an operation that is not running yet
cancelBeforeRunning(o) ==
  /\ ops[o].phase \in {"Creating", "Running"}
  /\ ops[o].cancel
  /\ cluster' = cancelComponentOps(ops[o], cluster)
  /\ restores' = teardownRestores(ops[o])
  /\ ops' = [ops EXCEPT ![o].phase = "Cancelling"]
  /\ UNCHANGED <<clusterPhase, pods, savedSpec, unavailable, progressDetails>>

\* the tick that sees the signal: horizontalScalingOpsHandler.Cancel, then
\* the operation is Cancelling
Cancel(o) ==
  /\ ops[o].phase = "Running"
  /\ ops[o].cancel
  /\ cluster' = cancelComponentOps(ops[o], cluster)
  /\ restores' = teardownRestores(ops[o])
  /\ ops' = [ops EXCEPT ![o].phase = "Cancelling"]
  /\ UNCHANGED <<clusterPhase, pods, savedSpec, unavailable, progressDetails>>

\* --------------------------------------------------------- ReconcileAction
\* handleComponentProgress for one entry of the list: <<completed, total>>
handleComponentProgressForScalingReplicas(createdPodSet, deletedPodSet, existing, available) ==
  <<Cardinality(createdPodSet \cap available) + Cardinality(deletedPodSet \ existing),
    Cardinality(createdPodSet) + Cardinality(deletedPodSet)>>

\* a status that takes a created instance for done as soon as it exists
statusByPresence(createdPodSet, deletedPodSet, existing, available, name) ==
  IF name \in deletedPodSet
  THEN (IF name \in existing THEN "Processing" ELSE "Succeed")
  ELSE (IF name \in existing THEN "Succeed" ELSE "Processing")

\* the status of the progress detail of one tracked instance
progressStatus(createdPodSet, deletedPodSet, existing, available, name) ==
  IF name \in deletedPodSet
  THEN (IF name \in existing THEN "Processing" ELSE "Succeed")
  ELSE (IF name \in available THEN "Succeed" ELSE "Processing")

\* the progress details of one entry of the list
componentProgressDetails(op, hs) ==
  UNION {{[key |-> <<hs.componentName, n>>,
           status |-> progressStatus(sets[1], sets[2], pods[hs.componentName],
                        pods[hs.componentName] \ unavailable[hs.componentName], n)] :
            n \in sets[1] \cup sets[2]} :
         sets \in {getCreateAndDeletePodSet(op.phase, op.lastConfiguration[hs.componentName],
                                            cluster[hs.componentName], hs)}}

\* a callback that tracks the created instances alone
progressOfCreatedOnly(op, hs) ==
  CHOOSE progress \in
    {handleComponentProgressForScalingReplicas(sets[1], {}, pods[hs.componentName],
         pods[hs.componentName] \ unavailable[hs.componentName]) :
       sets \in {getCreateAndDeletePodSet(op.phase, op.lastConfiguration[hs.componentName],
                                          cluster[hs.componentName], hs)}} : TRUE

\* the per-component callback of ReconcileAction
handleComponentProgress(op, hs) ==
  CHOOSE progress \in
    {handleComponentProgressForScalingReplicas(sets[1], sets[2], pods[hs.componentName],
         pods[hs.componentName] \ unavailable[hs.componentName]) :
       sets \in {getCreateAndDeletePodSet(op.phase, op.lastConfiguration[hs.componentName],
                                          cluster[hs.componentName], hs)}} : TRUE

\* completedCount and expectProgressCount are summed over the components
addProgress(p, q) == <<p[1] + q[1], p[2] + q[2]>>

RECURSIVE reconcileActionWithComponentOps(_, _)
\* the progress summed over the entries of the list from i on
reconcileActionWithComponentOps(op, i) ==
  IF i > Len(op.list) THEN <<0, 0>>
  ELSE addProgress(handleComponentProgress(op, op.list[i]),
                   reconcileActionWithComponentOps(op, i + 1))

\* one reconcile tick of a running or cancelling operation
ReconcileAction(o) ==
  /\ \/ ops[o].phase = "Running" /\ ~ops[o].cancel
     \/ ops[o].phase = "Cancelling"
  /\ \E p \in {reconcileActionWithComponentOps(ops[o], 1)} :
       ops' = [ops EXCEPT ![o].progress = [set |-> TRUE, v |-> p],
                          ![o].phase = IF p[1] = p[2]
                                       THEN (IF @ = "Cancelling" THEN "Cancelled" ELSE "Succeed")
                                       ELSE @]
  /\ progressDetails' = [progressDetails EXCEPT ![o] =
       UNION {componentProgressDetails(ops[o], ops[o].list[i]) : i \in DOMAIN ops[o].list}]
  /\ UNCHANGED <<cluster, clusterPhase, pods, restores, savedSpec, unavailable>>

\* ------------------------------------------------------- the workload side
\* the instances the declared spec of component c implies
SpecPods(c) ==
  GenerateAllPodNamesToSet(cluster[c].replicas, cluster[c].instances, cluster[c].offlineInstances)

\* the workload controller works in name order: templates in the order of
\* TplOrder, then ordinals
TplOrder == <<"", "a", "b">>
TplRank(t) == CHOOSE i \in DOMAIN TplOrder : TplOrder[i] = t
NameLess(n, m) == TplRank(n[1]) < TplRank(m[1]) \/ (n[1] = m[1] /\ n[2] < m[2])

\* the workload controller starts the first missing instance the spec implies
PodStarted(c) ==
  /\ \E p \in SpecPods(c) \ pods[c] :
       /\ \A q \in SpecPods(c) \ pods[c] : ~NameLess(q, p)
       /\ pods' = [pods EXCEPT ![c] = @ \cup {p}]
  /\ UNCHANGED <<cluster, clusterPhase, ops, restores, savedSpec, unavailable,
                 progressDetails>>

\* the workload controller creates the first missing instance; it is not
\* available yet
PodCreated(c) ==
  /\ \E p \in SpecPods(c) \ pods[c] :
       /\ \A q \in SpecPods(c) \ pods[c] : ~NameLess(q, p)
       /\ pods' = [pods EXCEPT ![c] = @ \cup {p}]
       /\ unavailable' = [unavailable EXCEPT ![c] = @ \cup {p}]
  /\ UNCHANGED <<cluster, clusterPhase, ops, restores, savedSpec, progressDetails>>

\* a created instance the spec implies becomes available
PodAvailable(c) ==
  /\ \E p \in unavailable[c] \cap SpecPods(c) :
       unavailable' = [unavailable EXCEPT ![c] = @ \ {p}]
  /\ UNCHANGED <<cluster, clusterPhase, ops, pods, restores, savedSpec, progressDetails>>

\* an instance the spec no longer implies starts terminating: it still exists
PodTerminating(c) ==
  /\ \E p \in (pods[c] \ SpecPods(c)) \ unavailable[c] :
       unavailable' = [unavailable EXCEPT ![c] = @ \cup {p}]
  /\ UNCHANGED <<cluster, clusterPhase, ops, pods, restores, savedSpec, progressDetails>>

\* the workload controller removes the last instance the spec no longer implies
PodRemoved(c) ==
  /\ \E p \in pods[c] \ SpecPods(c) :
       /\ \A q \in pods[c] \ SpecPods(c) : ~NameLess(p, q)
       /\ pods' = [pods EXCEPT ![c] = @ \ {p}]
       /\ unavailable' = [unavailable EXCEPT ![c] = @ \ {p}]
  /\ UNCHANGED <<cluster, clusterPhase, ops, restores, savedSpec, progressDetails>>

\* ===================================================== object generation
\* A child object: kind and name make its key (GVKNObjKey); labels,
\* annotations and tplAnnotations (the pod template's annotations) are maps;
\* owned holds the fields copyAndMerge takes from the new object, other the
\* rest of the spec.
VARIABLES
  rsm,          \* the ReplicatedStateMachine:
                \* [generation, replicas, debugMode, service, alternative, deleting]
  compatMode,   \* viper's FeatureGateRSMCompatibilityMode
  oldSnapshot,  \* key -> the observed object (the cache snapshot)
  calls,        \* the calls the last Transform made on the graph client
  rsmPc,        \* "idle", or "planned" between a Transform and the plan's execution
  appliedSpec,  \* history: {the spec whose plan produced oldSnapshot}, {} once it is edited
  mergeArgs,    \* <<oldObj, newObj>> when one pair of objects is merged on its own, else <<>>
  submitted     \* the keys of the calls of the plan submitted so far, when the plan is
                \* executed call by call

rsmVars == <<rsm, compatMode, oldSnapshot, calls, rsmPc, appliedSpec, mergeArgs, submitted>>
vars == <<opsVars, rsmVars>>

\* bound on spec.replicas of the ReplicatedStateMachine
MaxRsmReplicas == 2
\* bound on metadata.generation of the ReplicatedStateMachine
MaxGeneration == 2

EmptyMap == [k \in {} |-> ""]
Obj(kind, name, labels, annotations, tplAnnotations, owned, other) ==
  [kind |-> kind, name |-> name, labels |-> labels, annotations |-> annotations,
   tplAnnotations |-> tplAnnotations, owned |-> owned, other |-> other]
GetGVKName(obj) == <<obj.kind, obj.name>>

getLabels == [app |-> "rsm"]

buildSvc(r) ==
  IF ~r.service THEN {}
  ELSE {Obj("Service", "rsm", getLabels, EmptyMap, EmptyMap, "ClusterIP", "")}
\* one alternative service is declared when r.alternative
buildAlternativeSvs(r) ==
  IF ~r.service THEN {}
  ELSE IF r.alternative
       THEN {Obj("Service", "rsm-alt", getLabels, EmptyMap, EmptyMap, "ClusterIP", "")}
       ELSE {}
buildHeadlessSvc(r) ==
  Obj("Service", "rsm-headless", getLabels, EmptyMap, EmptyMap, "None", "")
buildEnvConfigMap(r) ==
  Obj("ConfigMap", "rsm-rsm-env",
      IF compatMode THEN [app |-> "rsm", configType |-> "kubeblocks-env"] ELSE getLabels,
      EmptyMap, EmptyMap, <<"env", r.replicas>>, "")
buildSts(r) ==
  Obj("StatefulSet", "rsm", [app |-> "rsm", generation |-> r.generation], EmptyMap, EmptyMap,
      <<"template", r.replicas, "RollingUpdate">>, "rsm-headless")
buildDebugPod(r) ==
  Obj("Pod", "debug", getLabels, EmptyMap, EmptyMap, "debug", "")

\* the objects Transform generates from the current spec
objects(r) ==
  {buildHeadlessSvc(r), buildEnvConfigMap(r), buildSts(r)}
    \cup (IF r.debugMode THEN {buildDebugPod(r)} ELSE {})
    \cup buildSvc(r)
    \cup buildAlternativeSvs(r)

newSnapshot(r) ==
  [k \in {GetGVKName(o) : o \in objects(r)} |->
     CHOOSE o \in objects(r) : GetGVKName(o) = k]

\* a merge that keeps the target map as it is generated
takeTargetMap(originalMap, targetMap) == targetMap

\* mergeMetadataMap: the target map with the original's missing keys copied in
mergeMetadataMap(originalMap, targetMap) ==
  [k \in DOMAIN originalMap \cup DOMAIN targetMap |->
     IF k \in DOMAIN targetMap THEN targetMap[k] ELSE originalMap[k]]

copyAndMergeSts(oldSts, newSts) ==
  [oldSts EXCEPT !.labels = mergeMetadataMap(oldSts.labels, newSts.labels),
                 !.tplAnnotations = mergeMetadataMap(oldSts.tplAnnotations, newSts.tplAnnotations),
                 !.owned = newSts.owned]

copyAndMergeSvc(oldSvc, newSvc) ==
  [oldSvc EXCEPT !.annotations = mergeMetadataMap(oldSvc.annotations, newSvc.annotations),
                 !.owned = newSvc.owned]

copyAndMergeCm(oldCm, newCm) == [oldCm EXCEPT !.owned = newCm.owned]

\* a merge that hands the generated object on
takeNewObject(oldObj, newObj) == {newObj}

\* copyAndMerge: {} stands for nil
copyAndMerge(oldObj, newObj) ==
  IF oldObj.kind # newObj.kind THEN {}
  ELSE CASE newObj.kind = "StatefulSet" -> {copyAndMergeSts(oldObj, newObj)}
         [] newObj.kind = "Service" -> {copyAndMergeSvc(oldObj, newObj)}
         [] newObj.kind = "ConfigMap" -> {copyAndMergeCm(oldObj, newObj)}
         [] OTHER -> {newObj}

\* a create set that forgets what is observed
createAll(newNameSet, oldNameSet) == newNameSet

\* a delete set that takes everything that is observed
deleteObserved(newNameSet, oldNameSet) == oldNameSet

createSet(newNameSet, oldNameSet) == newNameSet \ oldNameSet
updateSet(newNameSet, oldNameSet) == newNameSet \cap oldNameSet
deleteSet(newNameSet, oldNameSet) == oldNameSet \ newNameSet

createNewObjects(new, old) ==
  {[action |-> "Create", key |-> name, obj |-> {new[name]}] :
     name \in createSet(DOMAIN new, DOMAIN old)}

\* an update set that pairs the observed and the generated objects by name
\* alone, whatever their kinds
updateByName(new, old) ==
  {[action |-> "Update", key |-> name, obj |-> copyAndMerge(old[o], new[name])] :
     <<name, o>> \in {p \in (DOMAIN new) \X (DOMAIN old) : p[1][2] = p[2][2]}}

updateObjects(new, old) ==
  {[action |-> "Update", key |-> name, obj |-> copyAndMerge(old[name], new[name])] :
     name \in updateSet(DOMAIN new, DOMAIN old)}

\* a filter that skips nothing
skipNothing(obj) == FALSE

\* whether deleteOrphanObjects skips the object
skipOrphan(obj) == compatMode /\ obj.kind = "ConfigMap"

deleteOrphanObjects(new, old) ==
  {[action |-> "Delete", key |-> name, obj |-> {old[name]}] :
     name \in {n \in deleteSet(DOMAIN new, DOMAIN old) : ~skipOrphan(old[n])}}

\* a plan that registers no dependency
noDependencies(r) == {}

\* cli.DependOn(dag, sts, svc, headLessSvc, envConfig): obj holds the keys the
\* workload is made to depend on
handleDependencies(r) ==
  {[action |-> "DependOn", key |-> GetGVKName(buildSts(r)),
    obj |-> {GetGVKName(o) : o \in buildSvc(r) \cup {buildHeadlessSvc(r), buildEnvConfigMap(r)}}]}

\* ObjectGenerationTransformer.Transform: the calls made on the graph client
Transform ==
  /\ rsmPc = "idle"
  /\ calls' = IF rsm.deleting THEN {}
              ELSE createNewObjects(newSnapshot(rsm), oldSnapshot)
                   \cup updateObjects(newSnapshot(rsm), oldSnapshot)
                   \cup deleteOrphanObjects(newSnapshot(rsm), oldSnapshot)
                   \cup handleDependencies(rsm)
  /\ rsmPc' = "planned"
  /\ UNCHANGED <<rsm, compatMode, oldSnapshot, appliedSpec, mergeArgs, submitted, opsVars>>

\* the plan is executed: every call takes effect on the observed objects
applyCalls(old, cs) ==
  LET deleted == {c.key : c \in {d \in cs : d.action = "Delete"}}
      written == {c \in cs : c.action \in {"Create", "Update"} /\ c.obj # {}}
      keys == (DOMAIN old \ deleted) \cup {c.key : c \in written}
  IN [k \in keys |->
        IF \E c \in written : c.key = k
        THEN CHOOSE o \in (CHOOSE c \in written : c.key = k).obj : TRUE
        ELSE old[k]]

Execute ==
  /\ rsmPc = "planned"
  /\ oldSnapshot' = applyCalls(oldSnapshot, calls)
  /\ appliedSpec' = IF rsm.deleting THEN appliedSpec ELSE {rsm}
  /\ rsmPc' = "idle"
  /\ calls' = {}
  /\ UNCHANGED <<rsm, compatMode, mergeArgs, submitted, opsVars>>

\* the user edits the spec of the ReplicatedStateMachine
SpecChange ==
  /\ rsmPc = "idle"
  /\ rsm.generation < MaxGeneration
  /\ \E r \in 1..MaxRsmReplicas, d \in BOOLEAN, sv \in BOOLEAN, alt \in BOOLEAN,
        del \in BOOLEAN :
       /\ rsm' = [generation |-> rsm.generation + 1, replicas |-> r, debugMode |-> d,
                  service |-> sv, alternative |-> alt, deleting |-> del]
       /\ rsm.deleting => del
  /\ UNCHANGED <<compatMode, oldSnapshot, calls, rsmPc, appliedSpec, mergeArgs, submitted, opsVars>>

\* the observed objects after an actor has marked all of them in a field the
\* generator leaves empty: the annotations of the workload, the labels of the
\* pods and of the config maps
markObserved(old) ==
  [k \in DOMAIN old |->
     IF k[1] = "StatefulSet"
     THEN [old[k] EXCEPT !.annotations = mergeMetadataMap(@, [note |-> "n"])]
     ELSE IF k[1] \in {"Pod", "ConfigMap"}
          THEN [old[k] EXCEPT !.labels = mergeMetadataMap(@, [ext |-> "1"])]
          ELSE old[k]]

\* another controller edits an observed object: a label on the workload, an
\* annotation on its pod template or on the headless service; or it marks all
\* the observed objects
ExternalEdit ==
  /\ rsmPc = "idle"
  /\ \/ oldSnapshot' = markObserved(oldSnapshot) /\ oldSnapshot' # oldSnapshot
     \/ \E k \in DOMAIN oldSnapshot :
       \/ /\ k[1] = "StatefulSet"
          /\ "ext" \notin DOMAIN oldSnapshot[k].labels
          /\ oldSnapshot' = [oldSnapshot EXCEPT ![k].labels =
                               mergeMetadataMap(@, [ext |-> "1"])]
       \/ /\ k[1] = "StatefulSet"
          /\ "restartedAt" \notin DOMAIN oldSnapshot[k].tplAnnotations
          /\ oldSnapshot' = [oldSnapshot EXCEPT ![k].tplAnnotations =
                               mergeMetadataMap(@, [restartedAt \in {"restartedAt"} |-> "t1"])]
       \/ /\ k = GetGVKName(buildHeadlessSvc(rsm))
          /\ "lb" \notin DOMAIN oldSnapshot[k].annotations
          /\ oldSnapshot' = [oldSnapshot EXCEPT ![k].annotations =
                               mergeMetadataMap(@, [lb |-> "on"])]
  /\ appliedSpec' = {}
  /\ UNCHANGED <<rsm, compatMode, calls, rsmPc, mergeArgs, submitted, opsVars>>

\* ------------------------------------------------------- the requests made
\* bound on the replica changes a request asks for
MaxDelta == 2

D(k) == <<"", k>>
NoProgress == [set |-> FALSE, v |-> <<0, 0>>]
NoConfiguration == [c \in {} |-> CompSpec(0, <<>>, <<>>)]

OutBy(c, d) == HorizontalScaling(c, Nil, NoScaleIn, ScaleOut(<<>>, <<>>, <<>>, Some(d)))
InBy(c, d) == HorizontalScaling(c, Nil, ScaleIn(<<>>, <<>>, Some(d)), NoScaleOut)
Offline(c, names) == HorizontalScaling(c, Nil, ScaleIn(names, <<>>, Nil), NoScaleOut)
Online(c, names) == HorizontalScaling(c, Nil, NoScaleIn, ScaleOut(names, <<>>, <<>>, Nil))
Absolute(c, r) == HorizontalScaling(c, Some(r), NoScaleIn, NoScaleOut)
Req(list, policy) == [list |-> list, policy |-> policy]

\* the requests the earlier operation is drawn from
EarlierRequests ==
  {Req(<<OutBy("X", MaxDelta)>>, ""),
   Req(<<InBy("X", MaxDelta)>>, ""),
   Req(<<OutBy("Y", 1), OutBy("X", MaxDelta)>>, ""),
   Req(<<OutBy("Y", 1), Absolute("X", MaxDelta + 4)>>, ""),
   Req(<<HorizontalScaling("X", Nil, NoScaleIn,
                           ScaleOut(<<>>, <<Tpl("b", 1)>>, <<Delta("a", 1)>>, Nil))>>, "")}

\* the requests the later operation is drawn from
Requests ==
  EarlierRequests \cup
  {Req(<<Offline("X", <<D(MaxOrd)>>)>>, "Strict"),
   Req(<<Online("X", <<D(1)>>)>>, "Strict"),
   Req(<<Absolute("X", 1)>>, "Strict"),
   Req(<<HorizontalScaling("X", Some(MaxDelta + 4), ScaleIn(<<D(0)>>, <<>>, Nil), NoScaleOut)>>,
       "Strict"),
   Req(<<HorizontalScaling("X", Nil, ScaleIn(<<D(0)>>, <<>>, Nil),
                           ScaleOut(<<D(0)>>, <<>>, <<>>, Nil))>>, "Ignore")}

\* a Restore object on which nothing was done yet
Restore(name, comp, phase, backup) ==
  [name |-> name, comp |-> comp, phase |-> phase, backup |-> backup,
   deleting |-> FALSE, finalizer |-> TRUE]

\* the Restore objects of the cluster when the operations are requested
InitialRestores ==
  {Restore("r1", "X", "Running", scalingBackupName("X")),
   Restore("r2", "X", "Running", <<"X", "daily">>),
   Restore("r3", "X", "Completed", scalingBackupName("X")),
   Restore("r4", "Y", "Running", scalingBackupName("Y")),
   Restore("r5", "X", "Running", scalingBackupName("Y")),
   Restore("r6", "X", "Failed", scalingBackupName("X"))}

\* the component specs the cluster starts with; each satisfies
\* sum(instances.replicas) <= replicas
InitialX == CompSpec(4, <<Tpl("a", 2)>>, <<D(1)>>)
InitialY == CompSpec(1, <<>>, <<>>)

LegacySnapshot ==
  LET cm == Obj("ConfigMap", "legacy-config", getLabels, EmptyMap, EmptyMap, <<"cfg", 0>>, "")
      svc == Obj("Service", "legacy-svc", getLabels, EmptyMap, EmptyMap, "ClusterIP", "")
  IN [k \in {GetGVKName(cm), GetGVKName(svc)} |-> IF k = GetGVKName(cm) THEN cm ELSE svc]

\* the scaling state machine, with no object generation going on
Init ==
  /\ cluster = [c \in Comps |-> IF c = "X" THEN InitialX ELSE InitialY]
  /\ clusterPhase \in {"Running", "Stopped", "Stopping"}
  /\ \E r1 \in EarlierRequests, r2 \in Requests :
       ops = [o \in OpIds |->
                [list |-> IF o = 1 THEN r1.list ELSE r2.list,
                 policy |-> IF o = 1 THEN r1.policy ELSE r2.policy,
                 phase |-> "Pending", cancel |-> FALSE, err |-> "none",
                 lastConfiguration |-> NoConfiguration, progress |-> NoProgress]]
  /\ pods = [c \in Comps |-> GenerateAllPodNamesToSet(cluster[c].replicas,
                               cluster[c].instances, cluster[c].offlineInstances)]
  /\ restores = InitialRestores
  /\ savedSpec = [o \in OpIds |-> NoConfiguration]
  /\ unavailable = [c \in Comps |-> {}]
  /\ progressDetails = [o \in OpIds |-> {}]
  /\ rsm = [generation |-> 1, replicas |-> 1, debugMode |-> FALSE, service |-> FALSE,
            alternative |-> FALSE, deleting |-> FALSE]
  /\ compatMode = FALSE
  /\ oldSnapshot = [k \in {} |-> 0]
  /\ calls = {}
  /\ rsmPc = "idle"
  /\ appliedSpec = {}
  /\ mergeArgs = <<>>
  /\ submitted = {}

Next ==
  \/ \E o \in OpIds : SaveLastConfiguration(o) /\ UNCHANGED rsmVars
  \/ \E o \in OpIds : Action(o) /\ UNCHANGED rsmVars
  \/ \E o \in OpIds : CancelSignal(o) /\ UNCHANGED rsmVars
  \/ \E o \in OpIds : Cancel(o) /\ UNCHANGED rsmVars
  \/ \E o \in OpIds : ReconcileAction(o) /\ UNCHANGED rsmVars
  \/ \E c \in Comps : PodStarted(c) /\ UNCHANGED rsmVars
  \/ \E c \in Comps : PodRemoved(c) /\ UNCHANGED rsmVars

Spec == Init /\ [][Next]_vars

\* the scaling state machine on a running cluster, for two requests on the
\* component X
InitFair ==
  /\ cluster = [c \in Comps |-> IF c = "X" THEN InitialX ELSE InitialY]
  /\ clusterPhase = "Running"
  /\ \E r1 \in {Req(<<OutBy("X", MaxDelta)>>, ""), Req(<<InBy("X", MaxDelta)>>, "")},
        r2 \in {Req(<<Online("X", <<D(1)>>)>>, "Strict"),
                Req(<<Absolute("X", MaxDelta + 4)>>, "")} :
       ops = [o \in OpIds |->
                [list |-> IF o = 1 THEN r1.list ELSE r2.list,
                 policy |-> IF o = 1 THEN r1.policy ELSE r2.policy,
                 phase |-> "Pending", cancel |-> FALSE, err |-> "none",
                 lastConfiguration |-> NoConfiguration, progress |-> NoProgress]]
  /\ pods = [c \in Comps |-> GenerateAllPodNamesToSet(cluster[c].replicas,
                               cluster[c].instances, cluster[c].offlineInstances)]
  /\ restores = {}
  /\ savedSpec = [o \in OpIds |-> NoConfiguration]
  /\ unavailable = [c \in Comps |-> {}]
  /\ progressDetails = [o \in OpIds |-> {}]
  /\ rsm = [generation |-> 1, replicas |-> 1, debugMode |-> FALSE, service |-> FALSE,
            alternative |-> FALSE, deleting |-> FALSE]
  /\ compatMode = FALSE
  /\ oldSnapshot = [k \in {} |-> 0]
  /\ calls = {}
  /\ rsmPc = "idle"
  /\ appliedSpec = {}
  /\ mergeArgs = <<>>
  /\ submitted = {}

\* the reconcile loop re-invokes the tick of every operation that is running
\* or cancelling
Fairness ==
  \A o \in OpIds : /\ WF_vars(ReconcileAction(o) /\ UNCHANGED rsmVars)
                   /\ WF_vars(Cancel(o) /\ UNCHANGED rsmVars)

SpecFair == InitFair /\ [][Next]_vars /\ Fairness

\* the object generation pipeline, with no operation requested
InitRsm ==
  /\ rsm \in [generation : {1}, replicas : 1..MaxRsmReplicas, debugMode : BOOLEAN,
              service : BOOLEAN, alternative : BOOLEAN, deleting : {FALSE}]
  /\ compatMode \in BOOLEAN
  /\ oldSnapshot \in {[k \in {} |-> 0], LegacySnapshot}
  /\ calls = {}
  /\ rsmPc = "idle"
  /\ appliedSpec = {}
  /\ mergeArgs = <<>>
  /\ submitted = {}
  /\ cluster = [c \in Comps |-> InitialY]
  /\ clusterPhase = "Running"
  /\ ops = [o \in OpIds |-> [list |-> <<>>, policy |-> "", phase |-> "Succeed",
                             cancel |-> FALSE, err |-> "none",
                             lastConfiguration |-> NoConfiguration,
                             progress |-> NoProgress]]
  /\ pods = [c \in Comps |-> {}]
  /\ restores = {}
  /\ savedSpec = [o \in OpIds |-> NoConfiguration]
  /\ unavailable = [c \in Comps |-> {}]
  /\ progressDetails = [o \in OpIds |-> {}]

NextRsm == Transform \/ Execute \/ SpecChange \/ ExternalEdit

SpecRsm == InitRsm /\ [][NextRsm]_vars

\* ------------------------------------------- the plan, call by call
\* the calls of the plan that become a vertex of the graph
Vertices(cs) == {c \in cs : c.action \in {"Create", "Update", "Delete"}}

\* the keys the vertex of key k was made to depend on and that have a vertex
DependenciesOf(cs, k) ==
  {d \in UNION {c.obj : c \in {e \in cs : e.action = "DependOn" /\ e.key = k}} :
     \E v \in Vertices(cs) : v.key = d}

\* the graph is walked: a vertex is submitted once the vertices it depends on are
Submit ==
  /\ rsmPc = "planned"
  /\ \E c \in Vertices(calls) :
       /\ c.key \notin submitted
       /\ DependenciesOf(calls, c.key) \subseteq submitted
       /\ submitted' = submitted \cup {c.key}
       /\ oldSnapshot' = applyCalls(oldSnapshot, {c})
  /\ UNCHANGED <<rsm, compatMode, calls, rsmPc, appliedSpec, mergeArgs, opsVars>>

\* the walk is over
Finish ==
  /\ rsmPc = "planned"
  /\ {c.key : c \in Vertices(calls)} \subseteq submitted
  /\ appliedSpec' = IF rsm.deleting THEN appliedSpec ELSE {rsm}
  /\ rsmPc' = "idle"
  /\ calls' = {}
  /\ submitted' = {}
  /\ UNCHANGED <<rsm, compatMode, oldSnapshot, mergeArgs, opsVars>>

NextPlan == Transform \/ Submit \/ Finish \/ SpecChange

SpecPlan == InitRsm /\ [][NextPlan]_vars

\* ------------------------------------------------ the merge on its own
\* objects of every kind the generator builds, as generated or as observed
\* after other actors wrote on them
MergeObjects ==
  {Obj(kind, "rsm", labels, annotations, tplAnnotations, owned, other) :
     kind \in {"StatefulSet", "Service", "ConfigMap", "Pod"},
     labels \in {getLabels, [app |-> "rsm", ext |-> "1"]},
     annotations \in {EmptyMap, [lb |-> "on"]},
     tplAnnotations \in {EmptyMap},
     owned \in 1..MaxRsmReplicas,
     other \in {"generated", "observed"}}

\* the body of the loop of updateObjects for one name: the object is merged
\* and cli.Update is called with the result
UpdateObject ==
  /\ rsmPc = "idle"
  /\ mergeArgs # <<>>
  /\ calls' = {[action |-> "Update", key |-> GetGVKName(mergeArgs[1]),
                obj |-> copyAndMerge(mergeArgs[1], mergeArgs[2])]}
  /\ rsmPc' = "planned"
  /\ UNCHANGED <<rsm, compatMode, oldSnapshot, appliedSpec, mergeArgs, submitted, opsVars>>

\* one pair of an old and a new object, of the same kind or not
InitMerge ==
  /\ mergeArgs \in MergeObjects \X MergeObjects
  /\ submitted = {}
  /\ rsm = [generation |-> 1, replicas |-> 1, debugMode |-> FALSE, service |-> FALSE,
            alternative |-> FALSE, deleting |-> FALSE]
  /\ compatMode = FALSE
  /\ oldSnapshot = [k \in {} |-> 0]
  /\ calls = {}
  /\ rsmPc = "idle"
  /\ appliedSpec = {}
  /\ cluster = [c \in Comps |-> InitialY]
  /\ clusterPhase = "Running"
  /\ ops = [o \in OpIds |-> [list |-> <<>>, policy |-> "", phase |-> "Succeed",
                             cancel |-> FALSE, err |-> "none",
                             lastConfiguration |-> NoConfiguration,
                             progress |-> NoProgress]]
  /\ pods = [c \in Comps |-> {}]
  /\ restores = {}
  /\ savedSpec = [o \in OpIds |-> NoConfiguration]
  /\ unavailable = [c \in Comps |-> {}]
  /\ progressDetails = [o \in OpIds |-> {}]

NextMerge == UpdateObject

SpecMerge == InitMerge /\ [][NextMerge]_vars

\* --------------------------------- validation and calculation on their own
\* the instance names a request is made of: online, offline or unknown ones
CalcNames == {D(0), D(1), <<"a", 0>>, D(MaxOrd)}

NameLists == {<<>>} \cup {<<n>> : n \in CalcNames} \cup {<<n, m>> : n, m \in CalcNames}

\* the component specs the request meets
CalcSpecs == {InitialX, CompSpec(2, <<Tpl("a", 1)>>, <<D(0), <<"a", 0>>>>)}

\* the requests that only name instances, under each value of the
\* validate-policy annotation
NamingRequests ==
  {Req(<<HorizontalScaling("X", Nil, ScaleIn(down, <<>>, Nil), ScaleOut(up, <<>>, <<>>, Nil))>>,
       policy) :
     down \in NameLists, up \in NameLists, policy \in {"", "Strict", "Ignore"}}

\* the requests that combine the fields of an intent: absolute replicas, named
\* instances, per-template deltas, aggregates and new templates
CombinedRequests ==
  {Req(<<HorizontalScaling("X", replicas, ScaleIn(down, inDeltas, inChanges),
                           ScaleOut(up, new, outDeltas, outChanges))>>, "Ignore") :
     replicas \in {Nil, Some(2), Some(MaxDelta + 4)},
     down \in {<<>>, <<D(0)>>, <<<<"a", 0>>, D(0)>>, <<<<"a", 0>>, <<"a", 1>>>>, <<D(MaxOrd)>>},
     up \in {<<>>, <<D(1)>>, <<<<"a", 0>>>>},
     inDeltas \in {<<>>, <<Delta("a", 1)>>, <<Delta("a", MaxDelta + 1)>>},
     inChanges \in {Nil, Some(1)},
     new \in {<<>>, <<Tpl("b", 1)>>},
     outDeltas \in {<<>>, <<Delta("a", 1)>>, <<Delta("b", 1)>>},
     outChanges \in {Nil, Some(MaxDelta)}}

\* one operation on the component X, made of one of these requests
InitCalc ==
  /\ \E x \in CalcSpecs : cluster = [c \in Comps |-> IF c = "X" THEN x ELSE InitialY]
  /\ clusterPhase = "Running"
  /\ \E r \in NamingRequests \cup CombinedRequests :
       ops = [o \in OpIds |->
                IF o = 1
                THEN [list |-> r.list,
                      policy |-> r.policy, phase |-> "Pending", cancel |-> FALSE,
                      err |-> "none", lastConfiguration |-> NoConfiguration,
                      progress |-> NoProgress]
                ELSE [list |-> <<>>, policy |-> "", phase |-> "Succeed", cancel |-> FALSE,
                      err |-> "none", lastConfiguration |-> NoConfiguration,
                      progress |-> NoProgress]]
  /\ pods = [c \in Comps |-> GenerateAllPodNamesToSet(cluster[c].replicas,
                               cluster[c].instances, cluster[c].offlineInstances)]
  /\ restores = {}
  /\ savedSpec = [o \in OpIds |-> NoConfiguration]
  /\ unavailable = [c \in Comps |-> {}]
  /\ progressDetails = [o \in OpIds |-> {}]
  /\ rsm = [generation |-> 1, replicas |-> 1, debugMode |-> FALSE, service |-> FALSE,
            alternative |-> FALSE, deleting |-> FALSE]
  /\ compatMode = FALSE
  /\ oldSnapshot = [k \in {} |-> 0]
  /\ calls = {}
  /\ rsmPc = "idle"
  /\ appliedSpec = {}
  /\ mergeArgs = <<>>
  /\ submitted = {}

NextCalc ==
  \/ \E o \in OpIds : SaveLastConfiguration(o) /\ UNCHANGED rsmVars
  \/ \E o \in OpIds : Action(o) /\ UNCHANGED rsmVars

SpecCalc == InitCalc /\ [][NextCalc]_vars

\* ------------------------------------- one operation and its instances
\* the requests whose progress is followed instance by instance
TrackedRequests ==
  {Req(<<Absolute("X", 2)>>, "Strict"),
   Req(<<Absolute("X", MaxDelta + 4)>>, "Strict"),
   Req(<<OutBy("X", MaxDelta)>>, ""),
   Req(<<InBy("X", MaxDelta)>>, ""),
   Req(<<Offline("X", <<D(0)>>), OutBy("Y", 1)>>, "Strict"),
   Req(<<Offline("Y", <<D(MaxOrd)>>), OutBy("X", 1)>>, "Strict"),
   Req(<<Online("X", <<D(1)>>)>>, "Strict")}

\* one operation on a running cluster whose instances are created, become
\* available, terminate and are removed one at a time
InitProgress ==
  /\ cluster = [c \in Comps |-> IF c = "X" THEN InitialX ELSE InitialY]
  /\ clusterPhase = "Running"
  /\ \E r \in TrackedRequests :
       ops = [o \in OpIds |->
                IF o = 1
                THEN [list |-> r.list, policy |-> r.policy, phase |-> "Pending",
                      cancel |-> FALSE, err |-> "none",
                      lastConfiguration |-> NoConfiguration, progress |-> NoProgress]
                ELSE [list |-> <<>>, policy |-> "", phase |-> "Succeed", cancel |-> FALSE,
                      err |-> "none", lastConfiguration |-> NoConfiguration,
                      progress |-> NoProgress]]
  /\ pods = [c \in Comps |-> GenerateAllPodNamesToSet(cluster[c].replicas,
                               cluster[c].instances, cluster[c].offlineInstances)]
  /\ restores = {}
  /\ savedSpec = [o \in OpIds |-> NoConfiguration]
  /\ unavailable = [c \in Comps |-> {}]
  /\ progressDetails = [o \in OpIds |-> {}]
  /\ rsm = [generation |-> 1, replicas |-> 1, debugMode |-> FALSE, service |-> FALSE,
            alternative |-> FALSE, deleting |-> FALSE]
  /\ compatMode = FALSE
  /\ oldSnapshot = [k \in {} |-> 0]
  /\ calls = {}
  /\ rsmPc = "idle"
  /\ appliedSpec = {}
  /\ mergeArgs = <<>>
  /\ submitted = {}

NextProgress ==
  \/ \E o \in OpIds : SaveLastConfiguration(o) /\ UNCHANGED rsmVars
  \/ \E o \in OpIds : Action(o) /\ UNCHANGED rsmVars
  \/ \E o \in OpIds : CancelSignal(o) /\ UNCHANGED rsmVars
  \/ \E o \in OpIds : Cancel(o) /\ UNCHANGED rsmVars
  \/ \E o \in OpIds : ReconcileAction(o) /\ UNCHANGED rsmVars
  \/ \E c \in Comps : PodCreated(c) /\ UNCHANGED rsmVars
  \/ \E c \in Comps : PodAvailable(c) /\ UNCHANGED rsmVars
  \/ \E c \in Comps : PodTerminating(c) /\ UNCHANGED rsmVars
  \/ \E c \in Comps : PodRemoved(c) /\ UNCHANGED rsmVars

SpecProgress == InitProgress /\ [][NextProgress]_vars

\* ================================================================ properties
\* the step is the Action of operation o
ActionStep(o) ==
  ops[o].phase = "Creating" /\ ops'[o].phase \in {"Running", "Failed"}

\* the components operation o touches
Touched(o) == DOMAIN componentOpsSet(ops[o].list) \cap Comps

\* every topology the calculator may compute for component c of operation o,
\* from the spec `compSpec`, has more template replicas than replicas
ViolatesConservation(o, c) ==
  \A e \in getExpectedCompValues(cluster[c], ops[o].lastConfiguration[c],
                                 componentOpsSet(ops[o].list)[c]) :
    SumReplicas(e.instances) > e.replicas

\* C1: after every successful Action, each component the operation touched has
\* template replicas summing to at most its replicas; and an Action whose
\* intent passes validation but computes a topology with more template
\* replicas than replicas fails with the conservation error and writes nothing.
C1_ReplicaConservation ==
  [][\A o \in OpIds :
       /\ (ActionStep(o) /\ ops'[o].phase = "Running") =>
            \A c \in Touched(o) :
              SumReplicas(cluster'[c].instances) <= cluster'[c].replicas
       /\ (/\ ActionStep(o)
           /\ ops'[o].err \notin {"clusterPhase", "createdByAnotherOps"}
           /\ \E c \in Touched(o) :
                /\ ViolatesConservation(o, c)
                /\ validateHorizontalScalingWithPolicy(ops[o].policy,
                      ops[o].lastConfiguration[c], componentOpsSet(ops[o].list)[c]) = "none")
          => /\ ops'[o].phase = "Failed"
             /\ cluster' = cluster]_vars

\* an Action wrote two templates summing to less than the replicas, and a later
\* Action failed on the conservation guard
C1_Witness ==
  /\ ops[1].phase = "Succeed"
  /\ Len(cluster["X"].instances) = 2
  /\ SumReplicas(cluster["X"].instances) < cluster["X"].replicas
  /\ ops[2].phase = "Failed"
  /\ ops[2].err = "replicasExceeded"

\* C2: the Cancel of an operation leaves each component it saved with exactly
\* the replicas, instance templates and offline instances the component had
\* when SaveLastConfiguration ran.
C2_RoundTrip ==
  [][\A o \in OpIds :
       (ops[o].phase = "Running" /\ ops'[o].phase = "Cancelling") =>
         \A c \in DOMAIN savedSpec[o] : cluster'[c] = savedSpec[o][c]]_vars

\* an operation was cancelled after its Action changed the spec and after the
\* workload had begun to follow it
C2_Witness ==
  \E o \in OpIds :
    /\ ops[o].phase = "Cancelling"
    /\ "X" \in DOMAIN savedSpec[o]
    /\ cluster["X"] = savedSpec[o]["X"]
    /\ ops[o].progress.set
    /\ pods["X"] # podNamesOf(cluster["X"])

\* the created and the deleted pod set of entry i of operation o, as
\* getCreateAndDeletePodSet returns them while o is in `phase`
PodSets(o, i, phase) ==
  getCreateAndDeletePodSet(phase, ops[o].lastConfiguration[ops[o].list[i].componentName],
                           cluster[ops[o].list[i].componentName], ops[o].list[i])

\* the entries of operation o for which it has saved a configuration
Entries(o) ==
  {i \in DOMAIN ops[o].list : ops[o].list[i].componentName \in DOMAIN ops[o].lastConfiguration}

\* operation o ran its Action with success
Acted(o) == ops[o].phase \in {"Running", "Cancelling", "Succeed", "Cancelled"}

\* C3: for every operation, policy and phase, the created and the deleted
\* instance set of getCreateAndDeletePodSet share no instance name.
C3_Exclusive ==
  \A o \in OpIds : \A i \in Entries(o) :
    ops[o].phase \in {"Running", "Cancelling"} =>
      PodSets(o, i, ops[o].phase)[1] \cap PodSets(o, i, ops[o].phase)[2] = {}

\* entry j of operation b names, in onlineInstancesToOffline, an instance that
\* the delta scale-out of entry i of operation a created
TakesOfflineCreatedBy(a, i, b, j) ==
  /\ ops[a].list[i].componentName = ops[b].list[j].componentName
  /\ ~ops[a].list[i].replicas.set
  /\ ~ops[b].list[j].replicas.set
  /\ ops[a].list[i].scaleOut.present
  /\ \E n \in Range(ops[b].list[j].scaleIn.onlineInstancesToOffline) :
       /\ n \in PodSets(a, i, "Running")[1]
       /\ n \notin podNamesOf(ops[a].lastConfiguration[ops[a].list[i].componentName])
       /\ n \in podNamesOf(ops[b].lastConfiguration[ops[b].list[j].componentName])

\* C4: it never happens that operation A, whose delta scale-out created an
\* instance, stays Running while the Action of a newer operation B that takes
\* that instance offline has succeeded.
C4_ConflictDetected ==
  \A a, b \in OpIds :
    (a < b /\ ops[a].phase = "Running" /\ ops[b].phase = "Running") =>
      ~\E i \in Entries(a), j \in Entries(b) : TakesOfflineCreatedBy(a, i, b, j)

\* operations e and n share a component for which one of them sets absolute replicas
SharedAbsolute(e, n) ==
  \E c \in Touched(e) \cap Touched(n) :
    \/ componentOpsSet(ops[e].list)[c].replicas.set
    \/ componentOpsSet(ops[n].list)[c].replicas.set

\* on a shared component, the deleted set of n meets the created set of e
Intersects(e, n) ==
  \E i \in Entries(e), j \in Entries(n) :
    /\ ops[e].list[i].componentName = ops[n].list[j].componentName
    /\ PodSets(n, j, "Creating")[2] \cap PodSets(e, i, "Creating")[1] # {}

C6_AbsoluteAborts ==
  \A e, n \in OpIds :
    (e < n /\ Acted(n) /\ SharedAbsolute(e, n)) =>
      ops[e].phase \notin {"Pending", "Creating", "Running"}

\* a Transform has run on a snapshot that the plan for the current spec produced
Converged == rsmPc = "planned" /\ appliedSpec = {rsm}

\* C7 as stated: on a converged snapshot the transformer issues no Create, no
\* Update and no Delete.
C7_NoCalls ==
  Converged => \A c \in calls : c.action \notin {"Create", "Update", "Delete"}

\* C7 amended: on a converged snapshot the transformer issues no Create and no
\* Delete, and one Update for every desired object, each carrying an object
\* equal to the observed one.
C7_NoChurn ==
  Converged =>
    /\ \A c \in calls : c.action \notin {"Create", "Delete"}
    /\ \A c \in calls : c.action = "Update" => c.obj = {oldSnapshot[c.key]}
    /\ {c.key : c \in {u \in calls : u.action = "Update"}}
         = {GetGVKName(o) : o \in objects(rsm)}

\* a second run on a converged snapshot that holds a label another controller set
C7_Witness ==
  /\ Converged
  /\ \E c \in calls :
       /\ c.action = "Update"
       /\ c.key[1] = "StatefulSet"
       /\ "ext" \in DOMAIN oldSnapshot[c.key].labels
  /\ \E c \in calls : c.action = "Update" /\ c.key[1] = "ConfigMap"

\* the step is a reconcile tick of operation o, Running and not cancelled, that
\* reports a progress
ReconcileStep(o) ==
  /\ ops[o].phase = "Running"
  /\ ~ops[o].cancel
  /\ ~ops'[o].cancel
  /\ ops'[o].phase \in {"Running", "Succeed"}
  /\ ops'[o].progress.set
  /\ ops'[o].progress # ops[o].progress \/ ops'[o].phase # ops[o].phase

\* no other operation touching a component of o has run its Action
Solo(o) ==
  \A q \in OpIds \ {o} :
    Touched(q) \cap Touched(o) # {} => ops[q].phase \in {"Pending", "Creating", "Failed"}

\* the number of instances operation o tracks
TrackedSize(o) ==
  LET n[i \in 0..Len(ops[o].list)] ==
        IF i = 0 THEN 0
        ELSE n[i - 1] + Cardinality(PodSets(o, i, "Running")[1])
                      + Cardinality(PodSets(o, i, "Running")[2])
  IN n[Len(ops[o].list)]

\* every instance operation o tracks is observed in its target state
AllInTarget(o) ==
  \A i \in DOMAIN ops[o].list :
    \A sets \in {PodSets(o, i, "Running")} :
      /\ sets[1] \subseteq pods[ops[o].list[i].componentName]
      /\ sets[2] \cap pods[ops[o].list[i].componentName] = {}

\* C8 as stated, for an operation that no other operation interferes with:
\* across its ticks the numerator of the progress never decreases and the
\* denominator stays the same.
C8_Monotone ==
  [][\A o \in OpIds :
       (Solo(o) /\ ops[o].progress.set /\ ops'[o].progress.set) =>
         /\ ops'[o].progress.v[1] >= ops[o].progress.v[1]
         /\ ops'[o].progress.v[2] = ops[o].progress.v[2]]_vars

\* C8 amended: for an operation that is Running and not cancelled, while no
\* other operation touching one of its components has run its Action, from
\* one tick to the next the numerator never decreases and the denominator is
\* the number N of tracked instances; N/N is reported exactly when every
\* tracked instance is observed in its target state, and then the workload
\* holds exactly the instances the component spec implies.
C8_MonotoneWhileAlone ==
  [][\A o \in OpIds :
       (ReconcileStep(o) /\ Solo(o)) =>
         /\ ops[o].progress.set => ops'[o].progress.v[1] >= ops[o].progress.v[1]
         /\ ops'[o].progress.v[2] = TrackedSize(o)
         /\ ops'[o].progress.v[1] = ops'[o].progress.v[2] <=> AllInTarget(o)
         /\ ops'[o].progress.v[1] = ops'[o].progress.v[2] =>
              \A c \in Touched(o) : pods[c] = podNamesOf(cluster[c])
         /\ ops'[o].phase = "Succeed" <=> ops'[o].progress.v[1] = ops'[o].progress.v[2]]_vars

\* scaling in by MaxDelta instances, alone: all but one of them are gone and
\* the progress reported says so
C8_Witness ==
  \E o \in OpIds :
    /\ Solo(o)
    /\ ops[o].phase = "Running"
    /\ ops[o].progress = [set |-> TRUE, v |-> <<MaxDelta - 1, MaxDelta>>]
    /\ ops[o].list = <<InBy("X", MaxDelta)>>
    /\ Cardinality(pods["X"]) = Cardinality(podNamesOf(cluster["X"])) + 1

\* C9: after a run of the transformer in compatibility mode (on an object
\* that is not being deleted), no observed ConfigMap that is absent from the
\* desired objects is passed to Delete, and every other observed object absent
\* from the desired objects is passed to Delete.
C9_CompatibilityExclusion ==
  (rsmPc = "planned" /\ compatMode /\ ~rsm.deleting) =>
    \A k \in DOMAIN oldSnapshot \ {GetGVKName(o) : o \in objects(rsm)} :
      IF oldSnapshot[k].kind = "ConfigMap"
      THEN \A c \in calls : ~(c.action = "Delete" /\ c.key = k)
      ELSE [action |-> "Delete", key |-> k, obj |-> {oldSnapshot[k]}] \in calls

\* in compatibility mode the legacy ConfigMap was spared and the legacy Service deleted
C9_Witness ==
  /\ rsmPc = "planned"
  /\ compatMode
  /\ ~rsm.deleting
  /\ <<"ConfigMap", "legacy-config">> \in DOMAIN oldSnapshot
  /\ \E c \in calls : c.action = "Delete" /\ c.key = <<"Service", "legacy-svc">>
  /\ \A c \in calls : c.action = "Delete" => c.key[1] # "ConfigMap"

\* C10: under the strict policy, the Action of a request that sets both
\* absolute replicas and a ScaleIn or a ScaleOut for one component never
\* succeeds.
C10_AbsoluteOrDelta ==
  \A o \in OpIds :
    (/\ ops[o].policy \in {"", "Strict"}
     /\ \E i \in DOMAIN ops[o].list :
          /\ ops[o].list[i].replicas.set
          /\ ops[o].list[i].scaleIn.present \/ ops[o].list[i].scaleOut.present)
    => ~Acted(o)

\* the status of the record of operation o: what the state machine writes
Status(o) ==
  <<ops[o].phase, ops[o].err, ops[o].lastConfiguration, ops[o].progress>>

\* the phase changes the stated protocol allows; Creating -> Failed, an Action
\* that fails, is read as part of it
ProtocolEdges ==
  {<<"Pending", "Creating">>, <<"Creating", "Running">>, <<"Creating", "Failed">>,
   <<"Running", "Succeed">>, <<"Running", "Failed">>, <<"Running", "Cancelling">>,
   <<"Cancelling", "Cancelled">>}

\* C11 as stated: the phase changes only along Pending -> Creating -> Running
\* -> {Succeed, Failed, Cancelling} and Cancelling -> Cancelled, and the record
\* of an operation that is Succeed, Failed or Cancelled never changes.
C11_PhaseProtocol ==
  [][\A o \in OpIds :
       /\ ops'[o].phase # ops[o].phase => <<ops[o].phase, ops'[o].phase>> \in ProtocolEdges
       /\ ops[o].phase \in {"Succeed", "Failed", "Cancelled"} =>
            Status(o)' = Status(o)]_vars

\* C11 amended: the phase changes only along the stated protocol or, from
\* Pending, Creating or Running, to Aborted in the step in which a newer
\* operation runs its Action; once the phase is Succeed, Failed, Cancelled or
\* Aborted, no step changes the phase, the error, the lastConfiguration or the
\* progress of the record, and the request (list and policy) never changes.
C11_PhaseProtocolWithAbort ==
  [][\A o \in OpIds :
       /\ ops'[o].phase # ops[o].phase =>
            \/ <<ops[o].phase, ops'[o].phase>> \in ProtocolEdges
            \/ /\ ops[o].phase \in {"Pending", "Creating", "Running"}
               /\ ops'[o].phase = "Aborted"
               /\ \E n \in OpIds : o < n /\ ActionStep(n)
       /\ ops[o].phase \in {"Succeed", "Failed", "Cancelled", "Aborted"} =>
            Status(o)' = Status(o)
       /\ ops'[o].list = ops[o].list /\ ops'[o].policy = ops[o].policy]_vars

\* an operation that had reported a progress was aborted, the newer one has
\* succeeded, and a cancellation signal was sent to the aborted one
C11_Witness ==
  /\ ops[1].phase = "Aborted"
  /\ ops[1].progress.set
  /\ ops[1].cancel
  /\ ops[2].phase = "Succeed"

\* C12 as stated: a Running operation whose tracked instances are all in their
\* target state eventually reaches Succeed.
C12_RunningSucceeds ==
  \A o \in OpIds :
    (ops[o].phase = "Running" /\ AllInTarget(o)) ~> (ops[o].phase = "Succeed")

\* C12 amended: a Running operation whose tracked instances are all in their
\* target state eventually reaches Succeed, unless it is cancelled, it is
\* aborted by a newer operation, or a tracked instance leaves its target
\* state; and a tick marks an operation Succeed only when every tracked
\* instance is in its target state.
C12_SucceedsUnlessStopped ==
  /\ \A o \in OpIds :
       (ops[o].phase = "Running" /\ AllInTarget(o))
         ~> \/ ops[o].phase = "Succeed"
            \/ ops[o].cancel
            \/ ops[o].phase = "Aborted"
            \/ ops[o].phase = "Running" /\ ~AllInTarget(o)
  /\ [][\A o \in OpIds :
         (ops[o].phase # "Succeed" /\ ops'[o].phase = "Succeed") =>
           /\ ops[o].phase = "Running"
           /\ AllInTarget(o)
           /\ ops'[o].progress.v[1] = ops'[o].progress.v[2]]_vars

\* an operation that tracks MaxDelta instances succeeded after a tick had
\* reported some of them as not yet done
C12_Witness ==
  \E o \in OpIds :
    /\ ops[o].phase = "Succeed"
    /\ ops[o].progress = [set |-> TRUE, v |-> <<MaxDelta, MaxDelta>>]
    /\ AllInTarget(o)
    /\ ops[o].list = <<OutBy("X", MaxDelta)>>

\* ------------------------------------------------------------------- C13
Distinct(s) == \A i, j \in DOMAIN s : s[i] = s[j] => i = j

\* the names of the two lists of an entry
ToOffline(hs) == IF hs.scaleIn.present THEN hs.scaleIn.onlineInstancesToOffline ELSE <<>>
ToOnline(hs) == IF hs.scaleOut.present THEN hs.scaleOut.offlineInstancesToOnline ELSE <<>>

\* the instances that are online in a recorded configuration
OnlineIn(last) == podNamesOf(last) \ Range(last.offlineInstances)

StrictAccepts(last, hs) ==
  /\ Distinct(ToOffline(hs)) /\ Range(ToOffline(hs)) \subseteq OnlineIn(last)
  /\ Distinct(ToOnline(hs)) /\ Range(ToOnline(hs)) \subseteq Range(last.offlineInstances)

ValidationErrors == {"notExist", "duplicates", "notOnline", "notOffline"}

\* the entries of operation o whose component has a recorded configuration
Validated(o) ==
  {i \in DOMAIN ops[o].list : ops[o].list[i].componentName \in DOMAIN ops[o].lastConfiguration}

\* C13: with the policy annotation absent or 'strict', validation accepts an
\* entry exactly when the names of onlineInstancesToOffline are pairwise
\* distinct and online in lastConfiguration and the names of
\* offlineInstancesToOnline are pairwise distinct and in its offline set; the
\* Action of any other request fails with a validation error.
C13_StrictValidation ==
  \A o \in OpIds : ops[o].policy \in {"", "Strict"} =>
    /\ \A i \in Validated(o) : \A hs \in {ops[o].list[i]} :
         validateHorizontalScalingWithPolicy(ops[o].policy,
             ops[o].lastConfiguration[hs.componentName], hs) = "none"
           <=> StrictAccepts(ops[o].lastConfiguration[hs.componentName], hs)
    /\ ops[o].phase \in {"Running", "Failed"} /\ ops[o].list # <<>> =>
         (ops[o].err \in ValidationErrors <=>
            \E i \in Validated(o) :
              ~StrictAccepts(ops[o].lastConfiguration[ops[o].list[i].componentName],
                             ops[o].list[i]))

\* a strict request failed for a name repeated in offlineInstancesToOnline,
\* all of whose names are offline
C13_Witness ==
  /\ ops[1].policy = "Strict" /\ ops[1].phase = "Failed" /\ ops[1].err = "duplicates"
  /\ ~Distinct(ToOnline(ops[1].list[1])) /\ Distinct(ToOffline(ops[1].list[1]))
  /\ Range(ToOnline(ops[1].list[1])) \subseteq Range(ops[1].lastConfiguration["X"].offlineInstances)
\* ------------------------------------------------------------------- C14
\* the instance names a recorded configuration knows, online or offline
KnownIn(last) == podNamesOf(last) \cup Range(last.offlineInstances)

PermissiveAccepts(last, hs) ==
  Range(ToOffline(hs)) \cup Range(ToOnline(hs)) \subseteq KnownIn(last)

\* C14: with a policy annotation other than 'strict', validation returns a
\* fatal error exactly when some name of onlineInstancesToOffline or of
\* offlineInstancesToOnline is neither online nor offline in lastConfiguration
\* (the "not exist" error); the Action of such a request fails with it, and no
\* other request fails validation.
C14_PermissiveValidation ==
  \A o \in OpIds : ops[o].policy \notin {"", "Strict"} =>
    /\ \A i \in Validated(o) : \A hs \in {ops[o].list[i]} :
         \A v \in {validateHorizontalScalingWithPolicy(ops[o].policy,
                      ops[o].lastConfiguration[hs.componentName], hs)} :
           /\ v \in {"none", "notExist"}
           /\ v = "notExist" <=> ~PermissiveAccepts(ops[o].lastConfiguration[hs.componentName], hs)
    /\ ops[o].phase \in {"Running", "Failed"} /\ ops[o].list # <<>> =>
         (ops[o].err \in ValidationErrors <=>
            \E i \in Validated(o) :
              ~PermissiveAccepts(ops[o].lastConfiguration[ops[o].list[i].componentName],
                                 ops[o].list[i]))

\* a permissive request that repeats an offline instance in
\* onlineInstancesToOffline passed validation and is running
C14_Witness ==
  /\ ops[1].policy = "Ignore" /\ ops[1].phase = "Running"
  /\ ~Distinct(ToOffline(ops[1].list[1]))
  /\ Range(ToOffline(ops[1].list[1])) \subseteq Range(ops[1].lastConfiguration["X"].offlineInstances)
\* ------------------------------------------------------------------- C15
\* the topologies the calculator may return for entry i of operation o
Expected(o, i) ==
  getExpectedCompValues(cluster[ops[o].list[i].componentName],
                        ops[o].lastConfiguration[ops[o].list[i].componentName],
                        ops[o].list[i])

\* C15: two evaluations of getExpectedCompValues on the same component spec,
\* lastConfiguration and intent return the same replicas, the same sequence of
\* instance templates and the same sequence of offline instances.
C15_Deterministic ==
  \A o \in OpIds : \A i \in Validated(o) : \A e1, e2 \in Expected(o, i) : e1 = e2

\* what two evaluations do agree on: the replicas, the sequence of instance
\* templates and the set of offline instances
C15_SameUpToOfflineOrder ==
  \A o \in OpIds : \A i \in Validated(o) : \A e1, e2 \in Expected(o, i) :
    /\ e1.replicas = e2.replicas
    /\ e1.instances = e2.instances
    /\ Range(e1.offlineInstances) = Range(e2.offlineInstances)
    /\ Len(e1.offlineInstances) = Len(e2.offlineInstances)
\* ------------------------------------------------------------------- C16
\* the step is the pass over operation o that handles its cancellation
CancelStep(o) == ops[o].phase = "Running" /\ ops'[o].phase = "Cancelling"

\* C16: once SaveLastConfiguration has recorded the lastConfiguration of an
\* operation, no step changes it: not its own Action, a reconcile tick or
\* Cancel, and not the Action (with its conflict check) of a later operation;
\* what is recorded is the spec the components had when it was recorded.
C16_LastConfigurationImmutable ==
  [][\A o \in OpIds :
       /\ ops[o].phase # "Pending" => ops'[o].lastConfiguration = ops[o].lastConfiguration
       /\ \A c \in DOMAIN ops'[o].lastConfiguration :
            ops'[o].lastConfiguration[c] =
              CompSpec(savedSpec'[o][c].replicas, savedSpec'[o][c].instances,
                       savedSpec'[o][c].offlineInstances)]_vars

\* the first operation changed X, was reconciled, met the Action of a later
\* operation and was cancelled: its lastConfiguration is still the initial spec
\* while the cluster went through another one
C16_Witness ==
  /\ ops[1].phase = "Cancelled" /\ ops[1].progress.set
  /\ ops[2].phase \in {"Running", "Succeed"}
  /\ ops[1].lastConfiguration["X"] = InitialX
  /\ ops[2].lastConfiguration["X"] # InitialX
\* ------------------------------------------------------------------- C17
\* the step is the cancellation signal for operation o
SignalStep(o) == ~ops[o].cancel /\ ops'[o].cancel

\* the spec of every component of operation o is the one lastConfiguration holds
Reverted(o, cl) ==
  \A c \in Touched(o) \cap DOMAIN ops[o].lastConfiguration :
    /\ cl[c].replicas = ops[o].lastConfiguration[c].replicas
    /\ cl[c].instances = ops[o].lastConfiguration[c].instances
    /\ cl[c].offlineInstances = ops[o].lastConfiguration[c].offlineInstances

\* C17: the step that raises the cancellation signal changes nothing but the
\* signal; an operation enters Cancelling only from Running, in a later step
\* that finds the signal raised and reverts the spec of its components from
\* lastConfiguration; it enters Cancelled only from Cancelling; and an
\* operation that is not Running does not enter Cancelling, signal or not.
C17_CancellationProtocol ==
  [][\A o \in OpIds :
       /\ SignalStep(o) =>
            /\ ops' = [ops EXCEPT ![o].cancel = TRUE]
            /\ UNCHANGED <<cluster, clusterPhase, pods, restores, unavailable, progressDetails>>
       /\ ops[o].phase # "Cancelling" /\ ops'[o].phase = "Cancelling" =>
            /\ ops[o].phase = "Running" /\ ops[o].cancel
            /\ Reverted(o, cluster')
            /\ \A c \in Comps \ Touched(o) : cluster'[c] = cluster[c]
       /\ ops[o].phase # "Cancelled" /\ ops'[o].phase = "Cancelled" =>
            ops[o].phase = "Cancelling"
       /\ ops[o].phase # "Running" => ops'[o].phase # "Cancelling" \/ ops[o].phase = "Cancelling"]_vars

\* one operation was cancelled while running and reached Cancelled with the
\* spec of X as it recorded it; the other got the signal after it had succeeded
C17_Witness ==
  \E o, n \in OpIds :
    /\ o # n
    /\ ops[o].phase = "Cancelled" /\ ops[o].cancel
    /\ "X" \in DOMAIN ops[o].lastConfiguration /\ Reverted(o, cluster)
    /\ ops[n].phase = "Succeed" /\ ops[n].cancel /\ ops[n].list # <<>>
\* ------------------------------------------------------------------- C18
Active(o) == ops[o].phase \in {"Creating", "Running"}

Examined(e, n) ==
  {i \in DOMAIN ops[e].list :
     \A j \in 1..i : ops[e].list[j].componentName \in Touched(n)}

\* the instances entry i of the active operation e creates meet those that n
\* deletes on the same component
CreatedMeetsDeleted(e, i, n) ==
  \E c \in {ops[e].list[i].componentName} :
    getCreateAndDeletePodSet("Creating", ops[n].lastConfiguration[c], cluster[c],
                             componentOpsSet(ops[n].list)[c])[2]
      \cap getCreateAndDeletePodSet("Creating", ops[e].lastConfiguration[c], cluster[c],
                                    ops[e].list[i])[1] # {}

TickStep(o) ==
  /\ ops'[o].progress.set
  /\ ops'[o].progress # ops[o].progress \/ progressDetails'[o] # progressDetails[o]
  /\ pods' = pods /\ unavailable' = unavailable /\ cluster' = cluster

\* the instances operation o tracks in the phase it is in: <<created, deleted>>
\* sets of keys
TrackedKeys(o) ==
  <<UNION {{<<ops[o].list[i].componentName, n>> : n \in PodSets(o, i, ops[o].phase)[1]} :
             i \in DOMAIN ops[o].list},
    UNION {{<<ops[o].list[i].componentName, n>> : n \in PodSets(o, i, ops[o].phase)[2]} :
             i \in DOMAIN ops[o].list}>>

\* C19: what a tick reports for the tracked instances: one status for each, a
\* deleted instance Processing while its pod exists, terminating or not, and
\* Succeed once it is gone; a created instance Succeed once its pod exists and
\* is available, Processing before; no other status; and the numerator of the
\* progress counts the instances reported Succeed.
C19_InstanceStatus ==
  [][\A o \in OpIds : TickStep(o) =>
       \A keys \in {TrackedKeys(o)} :
         /\ {d.key : d \in progressDetails'[o]} = keys[1] \cup keys[2]
         /\ \A d, e \in progressDetails'[o] : d.key = e.key => d = e
         /\ \A d \in progressDetails'[o] :
              /\ d.status \in {"Processing", "Succeed"}
              /\ d.key \in keys[2] =>
                   (d.status = "Succeed" <=> d.key[2] \notin pods[d.key[1]])
              /\ d.key \in keys[1] =>
                   (d.status = "Succeed" <=>
                      d.key[2] \in pods[d.key[1]] \ unavailable[d.key[1]])
         /\ ops'[o].progress.v =
              <<Cardinality({d \in progressDetails'[o] : d.status = "Succeed"}),
                Cardinality(progressDetails'[o])>>]_vars

\* scaling X in to 2 replicas: one of the two instances to delete is gone and
\* reported Succeed, the other is terminating and reported Processing: 1/2
C19_Witness ==
  /\ ops[1].list = <<Absolute("X", 2)>> /\ ops[1].phase = "Running"
  /\ ops[1].progress.v = <<1, 2>>
  /\ \E d, e \in progressDetails[1] :
       /\ d.status = "Succeed" /\ d.key[2] \notin pods["X"]
       /\ e.status = "Processing" /\ e.key[2] \in unavailable["X"]
\* ------------------------------------------------------------------- C20
\* the keys of the calls of one kind the last Transform made
CallKeys(action) == {c.key : c \in {d \in calls : d.action = action}}

\* component names: those of the cluster and one that only its status has
ComponentNames == Comps \cup {"removed"}

\* the three sets partition the union of the desired and the observed keys
DiffOf(desired, observed) ==
  \A c \in {createSet(desired, observed)}, u \in {updateSet(desired, observed)},
     d \in {deleteSet(desired, observed)} :
    /\ c = {k \in desired : k \notin observed}
    /\ u = {k \in desired : k \in observed}
    /\ d = {k \in observed : k \notin desired}
    /\ c \cap u = {} /\ c \cap d = {} /\ u \cap d = {}
    /\ c \cup u \cup d = desired \cup observed

\* C20: for every observed snapshot and desired set, createSet is the desired
\* keys that are not observed, updateSet those that are, deleteSet the observed
\* keys that are not desired; the three are pairwise disjoint and cover both
\* key sets; and a Transform creates, updates and deletes (but for the orphans
\* it skips) exactly these keys, each key in one call.
C20_SnapshotDiff ==
  /\ DiffOf(DOMAIN newSnapshot(rsm), DOMAIN oldSnapshot)
  /\ \A compProto, compStatus \in SUBSET ComponentNames : DiffOf(compProto, compStatus)
  /\ (rsmPc = "planned" /\ ~rsm.deleting) =>
       /\ CallKeys("Create") = DOMAIN newSnapshot(rsm) \ DOMAIN oldSnapshot
       /\ CallKeys("Update") = DOMAIN newSnapshot(rsm) \cap DOMAIN oldSnapshot
       /\ CallKeys("Delete") \subseteq DOMAIN oldSnapshot \ DOMAIN newSnapshot(rsm)
       /\ \A k \in (DOMAIN oldSnapshot \ DOMAIN newSnapshot(rsm)) \ CallKeys("Delete") :
            skipOrphan(oldSnapshot[k])
       /\ \A c, d \in calls :
            (c.key = d.key /\ {c.action, d.action} \subseteq {"Create", "Update", "Delete"})
              => c = d

\* a Transform that created one object, updated another and deleted a third
C20_Witness ==
  /\ rsmPc = "planned" /\ ~rsm.deleting
  /\ CallKeys("Create") # {} /\ CallKeys("Update") # {} /\ CallKeys("Delete") # {}
\* ------------------------------------------------------------------- C21
\* the entries of operation o that set absolute replicas
AbsoluteEntries(o) == {i \in Validated(o) : ops[o].list[i].replicas.set}

\* C21: when the intent sets replicas, getExpectedCompValues returns the
\* replicas of the intent and the instance templates and the offline set of
\* the current component spec, whatever scaleIn and scaleOut the intent
\* carries and whatever lastConfiguration holds.
C21_AbsoluteMode ==
  \A o \in OpIds : \A i \in AbsoluteEntries(o) :
    \A hs \in {ops[o].list[i]}, last \in CalcSpecs \cup {ops[o].lastConfiguration["X"]} :
      \A e \in getExpectedCompValues(cluster[hs.componentName], last, hs) :
        /\ e.replicas = hs.replicas.v
        /\ e.instances = cluster[hs.componentName].instances
        /\ Range(e.offlineInstances) = Range(cluster[hs.componentName].offlineInstances)

\* what does hold in absolute mode: the replicas are those of the intent, the
\* templates those of the current spec, and lastConfiguration plays no part
C21_AbsoluteReplicasAndTemplates ==
  \A o \in OpIds : \A i \in AbsoluteEntries(o) :
    \A hs \in {ops[o].list[i]}, last \in CalcSpecs \cup {ops[o].lastConfiguration["X"]} :
      /\ getExpectedCompValues(cluster[hs.componentName], last, hs) = Expected(o, i)
      /\ \A e \in Expected(o, i) :
           /\ e.replicas = hs.replicas.v
           /\ e.instances = cluster[hs.componentName].instances
\* ------------------------------------------------------------------- C22
\* the entries of operation o that do not set absolute replicas
DeltaEntries(o) == {i \in Validated(o) : ~ops[o].list[i].replicas.set}

\* two topologies with the same replicas, templates and offline set
SameTopology(e1, e2) ==
  /\ e1.replicas = e2.replicas
  /\ e1.instances = e2.instances
  /\ Range(e1.offlineInstances) = Range(e2.offlineInstances)

\* C22: when the intent does not set replicas, what getExpectedCompValues
\* returns depends on lastConfiguration and the intent alone: for every live
\* component spec, the one Action wrote and the calculator's own output
\* included, it returns the same replicas, templates and offline set.
C22_DeltaBaseline ==
  \A o \in OpIds : \A i \in DeltaEntries(o) :
    \A hs \in {ops[o].list[i]}, last \in {ops[o].lastConfiguration[ops[o].list[i].componentName]} :
      \A live \in CalcSpecs \cup {cluster[hs.componentName]} \cup Expected(o, i) :
        /\ getExpectedCompValues(live, last, hs) = Expected(o, i)
        /\ \A e1 \in getExpectedCompValues(live, last, hs), e2 \in Expected(o, i) :
             SameTopology(e1, e2)

\* the Action of a delta intent has written a spec that differs from
\* lastConfiguration, and the topology is recomputed on the spec it wrote
C22_Witness ==
  /\ ops[1].phase = "Running" /\ 1 \in DeltaEntries(1)
  /\ cluster["X"] # ops[1].lastConfiguration["X"]
  /\ cluster["X"] \in Expected(1, 1)
\* ------------------------------------------------------------------- C23
\* the configuration the calculator starts from for entry i of operation o
Baseline(o, i) ==
  IF ops[o].list[i].replicas.set THEN cluster[ops[o].list[i].componentName]
  ELSE ops[o].lastConfiguration[ops[o].list[i].componentName]

RECURSIVE SelectIn(_, _)
\* the members of sequence s that are in set S, in order
SelectIn(s, S) ==
  IF s = <<>> THEN <<>>
  ELSE IF Head(s) \in S THEN <<Head(s)>> \o SelectIn(Tail(s), S)
       ELSE SelectIn(Tail(s), S)

\* the intent without the names that are not online, or not offline, in base
WithoutGhosts(hs, base) ==
  [hs EXCEPT !.scaleIn.onlineInstancesToOffline = SelectIn(@, podNamesOf(base)),
             !.scaleOut.offlineInstancesToOnline = SelectIn(@, Range(base.offlineInstances))]

\* C23: filterHorizontalScalingSpec keeps of onlineInstancesToOffline the
\* names in the instance-name set of the baseline and of
\* offlineInstancesToOnline the names in its offline set, each once, and drops
\* the others; the topology computed is the one of the intent that never
\* named the dropped instances.
C23_Filtering ==
  \A o \in OpIds : \A i \in Validated(o) :
    \A hs \in {ops[o].list[i]}, base \in {Baseline(o, i)} :
      /\ \A f \in filterHorizontalScalingSpec(base.replicas, base.instances,
                                              base.offlineInstances, hs) :
           /\ Range(f.scaleIn.onlineInstancesToOffline) =
                {n \in Range(ToOffline(hs)) : n \in podNamesOf(base)}
           /\ Range(f.scaleOut.offlineInstancesToOnline) =
                {n \in Range(ToOnline(hs)) : n \in Range(base.offlineInstances)}
           /\ Distinct(f.scaleIn.onlineInstancesToOffline)
           /\ Distinct(f.scaleOut.offlineInstancesToOnline)
      /\ \A e1 \in Expected(o, i) :
           \A e2 \in getExpectedCompValues(cluster[hs.componentName],
                       ops[o].lastConfiguration[hs.componentName], WithoutGhosts(hs, base)) :
             SameTopology(e1, e2)

\* a running operation that named, to take offline, an instance that was
\* offline already and, to bring online, one that was online
C23_Witness ==
  /\ ops[1].phase = "Running"
  /\ \E n \in Range(ToOffline(ops[1].list[1])) : n \notin podNamesOf(Baseline(1, 1))
  /\ \E n \in Range(ToOnline(ops[1].list[1])) :
       n \notin Range(Baseline(1, 1).offlineInstances)
  /\ WithoutGhosts(ops[1].list[1], Baseline(1, 1)) # ops[1].list[1]
\* ------------------------------------------------------------------- C24
\* the names of the list that filtering keeps: kept(names, S) with S the
\* instance-name set, or the offline set, of the baseline
Kept(names, S) == {n \in Range(names) : n \in S}

\* the instance belongs to a template the explicit delta list names
Covered(n, deltas) ==
  GetInstanceTemplateName(n) # "" /\
  \E k \in DOMAIN deltas : deltas[k].name = GetInstanceTemplateName(n)

\* the aggregate of one direction: the explicit replicaChanges when supplied,
\* else the per-template deltas, the kept named instances they do not cover
\* and the replicas of the new templates
Aggregate(present, replicaChanges, deltas, kept, new) ==
  IF ~present THEN 0
  ELSE IF replicaChanges.set THEN replicaChanges.v
  ELSE SumDeltas(deltas) + Cardinality({n \in kept : ~Covered(n, deltas)}) + SumReplicas(new)

ScaleInAggregate(hs, base) ==
  Aggregate(hs.scaleIn.present, hs.scaleIn.replicaChanges, hs.scaleIn.instances,
            Kept(hs.scaleIn.onlineInstancesToOffline, podNamesOf(base)), <<>>)

ScaleOutAggregate(hs, base) ==
  Aggregate(hs.scaleOut.present, hs.scaleOut.replicaChanges, hs.scaleOut.instances,
            Kept(hs.scaleOut.offlineInstancesToOnline, Range(base.offlineInstances)),
            hs.scaleOut.newInstances)

\* C24: in delta mode the expected replicas are the baseline replicas plus the
\* scale-out aggregate minus the scale-in aggregate; an aggregate is the
\* explicit replicaChanges when supplied and otherwise the synthesized total.
C24_ExpectedReplicas ==
  \A o \in OpIds : \A i \in DeltaEntries(o) :
    \A hs \in {ops[o].list[i]}, base \in {Baseline(o, i)} :
      \A e \in Expected(o, i) :
        e.replicas = base.replicas + ScaleOutAggregate(hs, base) - ScaleInAggregate(hs, base)

\* a running operation whose scale-out aggregate was synthesized from a
\* per-template delta, a named offline instance and a new template, and whose
\* scale-in aggregate was supplied
C24_Witness ==
  /\ ops[1].phase = "Running" /\ 1 \in DeltaEntries(1)
  /\ \E hs \in {ops[1].list[1]} :
       /\ ~hs.scaleOut.replicaChanges.set /\ hs.scaleIn.replicaChanges.set
       /\ hs.scaleOut.instances # <<>> /\ hs.scaleOut.newInstances # <<>>
       /\ Kept(hs.scaleOut.offlineInstancesToOnline,
               Range(ops[1].lastConfiguration["X"].offlineInstances)) # {}
       /\ ScaleOutAggregate(hs, ops[1].lastConfiguration["X"]) = 3
       /\ cluster["X"].replicas = ops[1].lastConfiguration["X"].replicas + 3 - 1
\* ------------------------------------------------------------------- C25
\* the intents autoSyncReplicaChanges may leave for entry i of operation o
Synced(o, i) ==
  UNION {autoSyncReplicaChanges(f) :
           f \in UNION {filterHorizontalScalingSpec(base.replicas, base.instances,
                                                    base.offlineInstances, ops[o].list[i]) :
                          base \in {Baseline(o, i)}}}

\* the kept names of the two lists of entry i of operation o
KeptOffline(o, i) == Kept(ToOffline(ops[o].list[i]), podNamesOf(Baseline(o, i)))
KeptOnline(o, i) == Kept(ToOnline(ops[o].list[i]), Range(Baseline(o, i).offlineInstances))

\* the delta list has an entry of one replica for the template of instance n
UnitEntryFor(n, deltas) ==
  \E k \in DOMAIN deltas : deltas[k] = Delta(GetInstanceTemplateName(n), 1)

\* C25: for every instance named in the filtered onlineInstancesToOffline or
\* offlineInstancesToOnline that the explicit delta list does not account
\* for, the synchronised delta list has an entry with a unit change.
C25_UnitEntryPerInstance ==
  \A o \in OpIds : \A i \in Validated(o) : \A s \in Synced(o, i) :
    /\ \A n \in KeptOffline(o, i) :
         ~Covered(n, ops[o].list[i].scaleIn.instances) => UnitEntryFor(n, s.scaleIn.instances)
    /\ \A n \in KeptOnline(o, i) :
         ~Covered(n, ops[o].list[i].scaleOut.instances) => UnitEntryFor(n, s.scaleOut.instances)

\* the synchronised list is the explicit one followed by one entry for each
\* template but the default one that has kept instances and no explicit
\* entry, with the number of these instances as its change
SyncedDeltas(explicit, synced, kept) ==
  /\ Len(synced) >= Len(explicit) /\ SubSeq(synced, 1, Len(explicit)) = explicit
  /\ \A k, l \in Len(explicit) + 1..Len(synced) : synced[k].name = synced[l].name => k = l
  /\ {synced[k] : k \in Len(explicit) + 1..Len(synced)} =
       {Delta(t, Cardinality({n \in kept : GetInstanceTemplateName(n) = t})) :
          t \in {GetInstanceTemplateName(n) :
                   n \in {m \in kept : GetInstanceTemplateName(m) # ""
                                        /\ ~Covered(m, explicit)}}}

\* C25 amended: entries are synthesized per template, not per instance: one
\* for each template but the default one that has kept named instances and no
\* explicit entry, whose change is the number of these instances; instances of
\* the default template get no entry; the aggregate, unless supplied, counts
\* one for every kept instance that the explicit list does not cover and
\* nothing for a covered one.
C25_EntryPerTemplate ==
  \A o \in OpIds : \A i \in Validated(o) :
    \A hs \in {ops[o].list[i]}, base \in {Baseline(o, i)} : \A s \in Synced(o, i) :
      /\ SyncedDeltas(hs.scaleIn.instances, s.scaleIn.instances, KeptOffline(o, i))
      /\ SyncedDeltas(hs.scaleOut.instances, s.scaleOut.instances, KeptOnline(o, i))
      /\ s.scaleIn.replicaChanges = Some(ScaleInAggregate(hs, base))
      /\ s.scaleOut.replicaChanges = Some(ScaleOutAggregate(hs, base))

\* a running operation took two instances of template a offline with no
\* explicit delta: the template lost two replicas, and so did the component
C25_Witness ==
  /\ ops[1].phase = "Running" /\ 1 \in DeltaEntries(1)
  /\ ToOffline(ops[1].list[1]) = <<<<"a", 0>>, <<"a", 1>>>>
  /\ ops[1].list[1].scaleIn.instances = <<>> /\ ~ops[1].list[1].scaleIn.replicaChanges.set
  /\ \A s \in Synced(1, 1) : s.scaleIn.instances = <<Delta("a", 2)>>
  /\ cluster["X"].instances[1].replicas = ops[1].lastConfiguration["X"].instances[1].replicas - 2
\* ------------------------------------------------------------------- C26
\* C26: the expected offline list holds exactly the names of the baseline
\* offline set that the filtered offlineInstancesToOnline does not name,
\* together with the names of the filtered onlineInstancesToOffline; no name
\* occurs twice in it.
C26_ExpectedOffline ==
  \A o \in OpIds : \A i \in Validated(o) : \A e \in Expected(o, i) :
    /\ Range(e.offlineInstances) =
         (Range(Baseline(o, i).offlineInstances) \ KeptOnline(o, i)) \cup KeptOffline(o, i)
    /\ Distinct(e.offlineInstances)

\* a running operation took instances offline and brought an offline one back
\* online at once, and the offline list of the cluster changed both ways
C26_Witness ==
  /\ ops[1].phase = "Running"
  /\ KeptOnline(1, 1) # {} /\ KeptOffline(1, 1) # {}
  /\ \A e \in Expected(1, 1) : e.offlineInstances = cluster["X"].offlineInstances
  /\ KeptOffline(1, 1) \subseteq Range(cluster["X"].offlineInstances)
  /\ KeptOnline(1, 1) \cap Range(cluster["X"].offlineInstances) = {}
  /\ Cardinality(Range(cluster["X"].offlineInstances)) > 1
\* ------------------------------------------------------------------- C27
RECURSIVE SumNamed(_, _)
\* the sum of the changes of the delta entries that name template t
SumNamed(deltas, t) ==
  IF deltas = <<>> THEN 0
  ELSE (IF Head(deltas).name = t THEN Head(deltas).replicaChanges ELSE 0)
       + SumNamed(Tail(deltas), t)

\* the delta of template t in one direction: its explicit entries, or, with
\* none, the number of its instances that the direction's kept list names
TemplateDelta(t, explicit, kept) ==
  IF \E k \in DOMAIN explicit : explicit[k].name = t THEN SumNamed(explicit, t)
  ELSE Cardinality({n \in kept : GetInstanceTemplateName(n) = t})

\* C27: in delta mode the expected templates are the baseline templates, in
\* their order, each with its replicas increased by its scale-out delta and
\* decreased by its scale-in delta (so unchanged when not named), followed by
\* the newInstances of the scale-out as given.
C27_ExpectedInstances ==
  \A o \in OpIds : \A i \in DeltaEntries(o) : \A e \in Expected(o, i) :
    \A hs \in {ops[o].list[i]}, base \in {Baseline(o, i).instances} :
      /\ Len(e.instances) = Len(base) + Len(hs.scaleOut.newInstances)
      /\ \A k \in DOMAIN base :
           e.instances[k] =
             Tpl(base[k].name,
                 base[k].replicas
                 + TemplateDelta(base[k].name, hs.scaleOut.instances, KeptOnline(o, i))
                 - TemplateDelta(base[k].name, hs.scaleIn.instances, KeptOffline(o, i)))
      /\ \A k \in DOMAIN hs.scaleOut.newInstances :
           e.instances[Len(base) + k] = hs.scaleOut.newInstances[k]

\* a running operation added a template, raised template a by an explicit
\* delta and lowered it by the two instances of a it took offline
C27_Witness ==
  /\ ops[1].phase = "Running" /\ 1 \in DeltaEntries(1)
  /\ ops[1].list[1].scaleOut.newInstances = <<Tpl("b", 1)>>
  /\ ops[1].list[1].scaleOut.instances = <<Delta("a", 1)>>
  /\ ops[1].list[1].scaleIn.instances = <<>>
  /\ Cardinality(KeptOffline(1, 1)) = 2
  /\ ops[1].lastConfiguration["X"].instances = <<Tpl("a", 2)>>
  /\ cluster["X"].instances = <<Tpl("a", 1), Tpl("b", 1)>>
\* ------------------------------------------------------------------- C28
\* the phases of an operation other than Cancelling
OtherPhases == {"Pending", "Creating", "Running", "Succeed", "Failed", "Cancelled", "Aborted"}

\* the pair getCreateAndDeletePodSet returns for entry i of operation o, were
\* the operation in the given phase
PodSetsIn(phase, o, i) ==
  getCreateAndDeletePodSet(phase, ops[o].lastConfiguration[ops[o].list[i].componentName],
                           cluster[ops[o].list[i].componentName], ops[o].list[i])

\* C28: for the same lastConfiguration, component spec and intent, the pair
\* (created, deleted) computed for a Cancelling operation is the pair
\* (deleted, created) computed for it in any other phase.
C28_CancellationSwap ==
  \A o \in OpIds : \A i \in Validated(o) : \A phase \in OtherPhases :
    \A cancelling \in {PodSetsIn("Cancelling", o, i)}, other \in {PodSetsIn(phase, o, i)} :
      cancelling = <<other[2], other[1]>>

\* a Cancelling operation has been reconciled and the two sets of its entry
\* differ, so that the swap shows
C28_Witness ==
  \E o \in OpIds :
    /\ ops[o].phase = "Cancelling" /\ ops[o].progress.set /\ 1 \in Validated(o)
    /\ PodSetsIn("Cancelling", o, 1)[1] # PodSetsIn("Cancelling", o, 1)[2]
    /\ PodSetsIn("Cancelling", o, 1)[2] # {}
\* ------------------------------------------------------------------- C29
\* the components the entries of operation o name
ComponentsOf(o) == {ops[o].list[i].componentName : i \in DOMAIN ops[o].list}

\* the restores Cancel of operation o is to tear down
StartedForScaling(o) ==
  {r \in restores : /\ r.phase = "Running"
                    /\ r.comp \in ComponentsOf(o)
                    /\ r.backup = scalingBackupName(r.comp)}

\* C29: the Cancel of an operation leaves every restore that was Running,
\* belongs to a component of the operation and was started from the scaling
\* backup of that component with a delete issued and without the component
\* finalizer, and leaves every other restore as it was.
C29_RestoreTeardown ==
  [][\A o \in OpIds : CancelStep(o) =>
       /\ {r.name : r \in restores'} = {r.name : r \in restores}
       /\ \A r \in restores :
            IF r \in StartedForScaling(o)
            THEN [r EXCEPT !.deleting = TRUE, !.finalizer = FALSE] \in restores'
            ELSE r \in restores']_vars

\* an operation on X and Y is Cancelling: the scaling restores of X and of Y
\* are torn down, the restore of X from the scaling backup of Y is not
C29_Witness ==
  \E o \in OpIds :
    /\ ops[o].phase = "Cancelling" /\ ComponentsOf(o) = {"X", "Y"}
    /\ {r.name : r \in {q \in restores : q.deleting}} = {"r1", "r4"}
    /\ {r.name : r \in {q \in restores : ~q.finalizer}} = {"r1", "r4"}
\* ------------------------------------------------------------------- C30
\* map m has the keys of new with their values, the keys of old absent from
\* new with theirs, and no other key
MergeOf(m, old, new) ==
  /\ DOMAIN m = DOMAIN old \cup DOMAIN new
  /\ \A k \in DOMAIN new : m[k] = new[k]
  /\ \A k \in DOMAIN old \ DOMAIN new : m[k] = old[k]

\* the Update calls of the plan that carry an object of the given kind
UpdatesOf(kind) ==
  {c \in calls : c.action = "Update" /\ c.key[1] = kind /\ c.obj # {}}

\* C30: in the object an Update call carries, the labels and the pod-template
\* annotations of a StatefulSet and the annotations of a Service hold every
\* key of the generated object with its value, every key of the observed
\* object that the generated one lacks with the observed value, and no other.
C30_MetadataMerge ==
  rsmPc = "planned" =>
    /\ \A c \in UpdatesOf("StatefulSet") : \A m \in c.obj :
         \A old \in {oldSnapshot[c.key]}, new \in {newSnapshot(rsm)[c.key]} :
           /\ MergeOf(m.labels, old.labels, new.labels)
           /\ MergeOf(m.tplAnnotations, old.tplAnnotations, new.tplAnnotations)
    /\ \A c \in UpdatesOf("Service") : \A m \in c.obj :
         \A old \in {oldSnapshot[c.key]}, new \in {newSnapshot(rsm)[c.key]} :
           MergeOf(m.annotations, old.annotations, new.annotations)

\* the plan updates a workload whose observed labels hold an older generation
\* and a label of another controller, and whose pod template and headless
\* service were annotated by others
C30_Witness ==
  /\ rsmPc = "planned"
  /\ \E c \in UpdatesOf("StatefulSet") : \E m \in c.obj :
       /\ oldSnapshot[c.key].labels.generation # rsm.generation
       /\ m.labels = [app |-> "rsm", generation |-> rsm.generation, ext |-> "1"]
       /\ DOMAIN m.tplAnnotations = {"restartedAt"}
  /\ \E c \in UpdatesOf("Service") : \E m \in c.obj : DOMAIN m.annotations = {"lb"}
\* ------------------------------------------------------------------- C31
\* the Update calls of the plan that carry an object
Updates == {c \in calls : c.action = "Update" /\ c.obj # {}}

Merged == mergeArgs # <<>> /\ rsmPc = "planned"

\* copyAndMerge returns no object exactly when the two objects differ in kind
C32_NilIffKindsDiffer ==
  Merged => \A c \in calls : (c.obj = {}) <=> (mergeArgs[1].kind # mergeArgs[2].kind)

Prerequisites ==
  {GetGVKName(o) : o \in buildSvc(rsm) \cup {buildHeadlessSvc(rsm), buildEnvConfigMap(rsm)}}

\* the step submits the create or update of the workload
WorkloadSubmitted ==
  /\ GetGVKName(buildSts(rsm)) \in submitted' \ submitted
  /\ \E c \in calls : /\ c.key = GetGVKName(buildSts(rsm))
                      /\ c.action \in {"Create", "Update"}

\* C33: in every execution of the plan, when the create or update of the
\* workload is submitted, the plan holds a create or update of the service (if
\* one is declared), of the headless service and of the env config map, and
\* each of them has been submitted already.
C33_DependencyOrder ==
  [][WorkloadSubmitted =>
       \A k \in Prerequisites :
         /\ \E c \in calls : c.key = k /\ c.action \in {"Create", "Update"}
         /\ k \in submitted]_vars

\* the workload has just been submitted after its three prerequisites, while
\* the debug pod and the alternative service are still to come
C33_Witness ==
  /\ rsmPc = "planned" /\ rsm.service /\ rsm.alternative /\ rsm.debugMode
  /\ submitted = Prerequisites \cup {GetGVKName(buildSts(rsm))}
  /\ Cardinality(Prerequisites) = 3
\* ------------------------------------------------------------------- C34
\* C34: while the cluster is Stopped or Stopping, the Action of an operation
\* fails it with the error about the cluster phase, aborts no earlier
\* operation and changes no component spec; nothing but the user's cancel
\* flag changes on a Failed operation from then on.
C34_IncompatibleClusterPhase ==
  [][\A o \in OpIds :
       /\ (ActionStep(o) /\ clusterPhase \in {"Stopped", "Stopping"}) =>
            /\ ops'[o] = [ops[o] EXCEPT !.phase = "Failed", !.err = "clusterPhase"]
            /\ \A e \in OpIds \ {o} : ops'[e] = ops[e]
            /\ cluster' = cluster
       /\ ops[o].phase = "Failed" =>
            ops'[o] = [ops[o] EXCEPT !.cancel = ops'[o].cancel]]_vars

\* on a stopped cluster the later operation has failed, while the earlier one,
\* which sets absolute replicas for the same component, is still to act
C34_Witness ==
  /\ clusterPhase \in {"Stopped", "Stopping"}
  /\ ops[2].phase = "Failed" /\ ops[2].err = "clusterPhase"
  /\ ops[1].phase = "Creating"
  /\ \E i \in DOMAIN ops[1].list : \E j \in DOMAIN ops[2].list :
       /\ ops[1].list[i].componentName = ops[2].list[j].componentName
       /\ ops[1].list[i].replicas.set
\* ------------------------------------------------------------------- C35
\* on the components operations e and o share, neither sets absolute replicas
OnlyDeltasShared(e, o) ==
  \A i \in DOMAIN ops[e].list : \A j \in DOMAIN ops[o].list :
    ops[e].list[i].componentName = ops[o].list[j].componentName =>
      ~ops[e].list[i].replicas.set /\ ~ops[o].list[j].replicas.set

\* the operations share a component
Sharing(e, o) ==
  \E i \in DOMAIN ops[e].list : \E j \in DOMAIN ops[o].list :
    ops[e].list[i].componentName = ops[o].list[j].componentName

\* C35: the Action of an operation leaves an earlier operation that is
\* Pending as it is, and does not fail with the error about instances created
\* by another operation, when the two use only delta intents on the
\* components they share.
C35_PendingEarlierKept ==
  [][\A o \in OpIds : \A e \in {x \in OpIds : x < o} :
       (ActionStep(o) /\ ops[e].phase = "Pending" /\ OnlyDeltasShared(e, o)) =>
         /\ ops'[e] = ops[e]
         /\ ops'[o].err # "createdByAnotherOps"]_vars

\* the later operation runs while the earlier one, a delta intent on the same
\* component, is still Pending
C35_Witness ==
  /\ ops[1].phase = "Pending" /\ ops[2].phase = "Running"
  /\ Sharing(1, 2) /\ OnlyDeltasShared(1, 2)
  /\ cluster # [c \in Comps |-> IF c = "X" THEN InitialX ELSE InitialY]
\* ------------------------------------------------------------------- C36
\* the step is an Action of operation o that returned an error
ActionFailed(o) == ops[o].phase = "Creating" /\ ops'[o].phase = "Failed"

\* C36: an Action that returns an error leaves the persisted spec of every
\* component as it was, the components it handled before the failing one
\* included.
C36_NoPartialWrite ==
  [][\A o \in OpIds : ActionFailed(o) => cluster' = cluster]_vars

\* the Action failed on the second component of the cluster, after the first
\* one had been computed without error, and nothing was written
C36_Witness ==
  /\ ops[1].phase = "Failed" /\ ops[1].err \notin {"none", "clusterPhase"}
  /\ ops[1].list = <<Offline("Y", <<D(MaxOrd)>>), OutBy("X", 1)>>
  /\ \A e \in getExpectedCompValues(cluster["X"], ops[1].lastConfiguration["X"],
                                     ops[1].list[2]) : e.replicas # cluster["X"].replicas
  /\ cluster = [c \in Comps |-> IF c = "X" THEN InitialX ELSE InitialY]
\* ------------------------------------------------------------------- C37
\* C37: the Action and the Cancel of an operation leave the replicas, the
\* instance templates and the offline instances of every component that the
\* list of the operation does not name as they were.
C37_Frame ==
  [][\A o \in OpIds : (ActionStep(o) \/ CancelStep(o)) =>
       \A c \in Comps \ ComponentsOf(o) : cluster'[c] = cluster[c]]_vars

\* an operation on X alone has acted and was cancelled, and Y still holds what
\* the other operation made of it
C37_Witness ==
  \E o \in OpIds :
    /\ ops[o].phase = "Cancelling" /\ ComponentsOf(o) = {"X"}
    /\ cluster["X"] = ops[o].lastConfiguration["X"]
    /\ cluster["Y"] # InitialY
    /\ \E e \in OpIds \ {o} : ops[e].phase = "Running" /\ cluster["X"] # ops[e].lastConfiguration["X"]
\* ------------------------------------------------------------------- C38
\* C38: after a successful Action, the replicas of every component the
\* operation names and the replicas of each of its instance templates are
\* not negative.
C38_NoNegativeReplicas ==
  \A o \in OpIds : ops[o].phase = "Running" =>
    \A c \in Touched(o) :
      /\ cluster[c].replicas >= 0
      /\ \A k \in DOMAIN cluster[c].instances : cluster[c].instances[k].replicas >= 0
\* ------------------------------------------------------------------- C39
\* C39: for an operation that is not Cancelling, the deleted set of
\* getCreateAndDeletePodSet is exactly the set of instance names of
\* lastConfiguration that are not instance names of the expected topology, and
\* the created set is exactly the set of instance names of the expected
\* topology that are not instance names of lastConfiguration.
C39_TrackedSetsAreDifferences ==
  \A o \in OpIds : \A i \in Validated(o) :
    ops[o].phase = "Running" =>
      \A e \in Expected(o, i) :
        \A last \in {podNamesOf(ops[o].lastConfiguration[ops[o].list[i].componentName])},
           curr \in {podNamesOf(e)} :
          PodSetsIn("Running", o, i) = <<curr \ last, last \ curr>>

\* what does hold: under the strict policy the named instances are online,
\* respectively offline, in lastConfiguration, and the two sets of a running
\* operation are the two differences
C39_DifferencesWhenStrict ==
  \A o \in OpIds : \A i \in DeltaEntries(o) :
    ops[o].phase = "Running" /\ ops[o].policy \in {"", "Strict"} =>
      \A e \in Expected(o, i) :
        \A last \in {podNamesOf(ops[o].lastConfiguration[ops[o].list[i].componentName])},
           curr \in {podNamesOf(e)} :
          PodSetsIn("Running", o, i) = <<curr \ last, last \ curr>>

\* a running permissive operation tracks, as deleted, an instance that was
\* already offline in lastConfiguration
C39_TracksUnchanged ==
  /\ ops[1].phase = "Running" /\ ops[1].policy = "Ignore" /\ 1 \in DeltaEntries(1)
  /\ \E n \in PodSetsIn("Running", 1, 1)[2] :
       /\ n \in Range(ops[1].lastConfiguration["X"].offlineInstances)
       /\ n \in Range(cluster["X"].offlineInstances)

\* ------------------------------------------------------------------- C40
\* every observed and every generated object is filed under its own kind and
\* name
FiledByKind(snapshot) == \A k \in DOMAIN snapshot : GetGVKName(snapshot[k]) = k

\* C40: the observed and the generated snapshot are keyed by kind and name, so
\* in every run of Transform each Update call is made for an observed and a
\* generated object of the same kind and carries a merged object, never nil.
C40_SameKindInPipeline ==
  /\ FiledByKind(oldSnapshot) /\ FiledByKind(newSnapshot(rsm))
  /\ rsmPc = "planned" =>
       \A c \in calls : c.action = "Update" =>
         /\ c.obj # {}
         /\ oldSnapshot[c.key].kind = newSnapshot(rsm)[c.key].kind
         /\ \A m \in c.obj : m.kind = c.key[1]

\* the plan updates the service and the workload, two objects of one name
\* and two kinds, each merged with the observed object of its own kind
C40_Witness ==
  /\ rsmPc = "planned"
  /\ \E c, d \in calls :
       /\ c.action = "Update" /\ d.action = "Update"
       /\ c.key = <<"Service", "rsm">> /\ d.key = <<"StatefulSet", "rsm">>
       /\ \E svc \in buildSvc(rsm) : c.obj = {copyAndMergeSvc(oldSnapshot[c.key], svc)}
       /\ d.obj = {copyAndMergeSts(oldSnapshot[d.key], buildSts(rsm))}

====
